---- MODULE Spec2Model ----
(***************************************************************************)
(* NEAT_JS: the DAG engine (both implementations of src/src/dag.ts) and    *)
(* the Genome built on it (src/src/genome.ts).                             *)
(*                                                                         *)
(* Node indices are 0-based as in the source; a DAG value is the sequence  *)
(* of its nodes, so node i is d[i + 1].                                    *)
(***************************************************************************)
EXTENDS Integers, Sequences, FiniteSets, TLC

\* Bounds of the model.
MaxNodes == 3
MaxDepthNodes == 3
MaxEdges == 2
\* A genome holds at most MaxGenomeSize nodes and connection records together.
MaxGenomeSize == 6
\* Nodes plus connection records of a genome in the smaller genome run.
MaxSmallGenomeSize == 5
\* Nodes plus connection records below which a genome handed to the mutator
\* is still grown.
MaxMutatedGenomeSize == 4
\* Nodes plus enabled connections of a genome in a line of descent.
MaxLineageSize == 6
\* Genomes of a population and passes of the loop of evolve.
MaxPopulation == 2
MaxGenerations == 2
\* Calls made on a random generator.
MaxCalls == 3
\* Connections of a network set up by hand.
MaxNetConnections == 2
\* Nodes plus compiled connections below which a genome that is compiled and
\* run is still grown.
MaxNetGenomeSize == 4
\* computeDepth never lowers the depth of a node that keeps an incoming edge,
\* so depths grow without limit over remove/create/computeDepth rounds; the
\* model stops calling computeDepth where a depth would pass MaxDepth.
MaxDepth == 2

VARIABLES impl, dag, depthsCurrent, genome, net, last, ret

vars == <<impl, dag, depthsCurrent, genome, net, last, ret>>

\* Arguments a caller may pass as a node index: one negative value, every
\* existing index and indices past the end.
NodeArgs == -1 .. MaxNodes

(***************************************************************************)
(* Array helpers (JavaScript Array methods used by the source).            *)
(***************************************************************************)
includes(s, x) == \E k \in 1 .. Len(s) : s[k] = x

\* Array.prototype.indexOf, 1-based; 0 when absent.
indexOf(s, x) ==
  IF includes(s, x) THEN CHOOSE k \in 1 .. Len(s) : s[k] = x /\ \A j \in 1 .. (k - 1) : s[j] # x
  ELSE 0

\* Array.prototype.splice(k, 1) at 1-based position k.
splice(s, k) == SubSeq(s, 1, k - 1) \o SubSeq(s, k + 1, Len(s))

(***************************************************************************)
(* DAG, first implementation (src/src/dag.ts lines 22-180).                *)
(***************************************************************************)
DAGNode == [incoming |-> 0, depth |-> 0, out |-> <<>>]

DAG_createNode(d) == Append(d, DAGNode)

DAG_isValid(d, nodeId) == nodeId >= 0 /\ nodeId < Len(d)

DAG_isParent(d, parent, child) ==
  IF ~DAG_isValid(d, parent) THEN FALSE
  ELSE includes(d[parent + 1].out, child)

\* isAncestor that looks at the direct children only.
DAG_isAncestor_ParentOnly(d, ancestor, descendant) ==
  IF ~DAG_isValid(d, ancestor) THEN FALSE
  ELSE DAG_isParent(d, ancestor, descendant)

RECURSIVE DAG_isAncestor(_, _, _)
DAG_isAncestor(d, ancestor, descendant) ==
  IF ~DAG_isValid(d, ancestor) THEN FALSE
  ELSE IF DAG_isParent(d, ancestor, descendant) THEN TRUE
  ELSE \E k \in 1 .. Len(d[ancestor + 1].out) :
         DAG_isAncestor(d, d[ancestor + 1].out[k], descendant)

\* addOutConnection(to) on node from, incrementIncoming() on node to.
AddEdge(d, from, to) ==
  [i \in 1 .. Len(d) |->
     IF i = from + 1 THEN [d[i] EXCEPT !.out = Append(@, to)]
     ELSE IF i = to + 1 THEN [d[i] EXCEPT !.incoming = @ + 1]
     ELSE d[i]]

\* createConnection without the isAncestor(to, from) test.
DAG_createConnection_NoAncestorCheck(d, from, to) ==
  IF ~DAG_isValid(d, from) \/ ~DAG_isValid(d, to) THEN [dag |-> d, ret |-> "false"]
  ELSE IF from = to THEN [dag |-> d, ret |-> "false"]
  ELSE IF DAG_isParent(d, from, to) THEN [dag |-> d, ret |-> "false"]
  ELSE [dag |-> AddEdge(d, from, to), ret |-> "true"]

\* createConnection without the isParent(from, to) test.
DAG_createConnection_NoParentCheck(d, from, to) ==
  IF ~DAG_isValid(d, from) \/ ~DAG_isValid(d, to) THEN [dag |-> d, ret |-> "false"]
  ELSE IF from = to THEN [dag |-> d, ret |-> "false"]
  ELSE IF DAG_isAncestor(d, to, from) THEN [dag |-> d, ret |-> "false"]
  ELSE [dag |-> AddEdge(d, from, to), ret |-> "true"]

DAG_createConnection(d, from, to) ==
  IF ~DAG_isValid(d, from) \/ ~DAG_isValid(d, to) THEN [dag |-> d, ret |-> "false"]
  ELSE IF from = to THEN [dag |-> d, ret |-> "false"]
  ELSE IF DAG_isAncestor(d, to, from) THEN [dag |-> d, ret |-> "false"]
  ELSE IF DAG_isParent(d, from, to) THEN [dag |-> d, ret |-> "false"]
  ELSE [dag |-> AddEdge(d, from, to), ret |-> "true"]

\* removeConnection that lowers the incoming count whether or not the edge
\* was found.
DAG_removeConnection_AlwaysDecrement(d, from, to) ==
  IF ~DAG_isValid(d, from) \/ ~DAG_isValid(d, to) THEN d
  ELSE [i \in 1 .. Len(d) |->
          IF i = to + 1 /\ i = from + 1
          THEN [d[i] EXCEPT !.incoming = @ - 1,
                            !.out = IF indexOf(@, to) # 0 THEN splice(@, indexOf(@, to)) ELSE @]
          ELSE IF i = from + 1
          THEN [d[i] EXCEPT !.out = IF indexOf(@, to) # 0 THEN splice(@, indexOf(@, to)) ELSE @]
          ELSE IF i = to + 1 THEN [d[i] EXCEPT !.incoming = @ - 1]
          ELSE d[i]]

DAG_removeConnection(d, from, to) ==
  IF ~DAG_isValid(d, from) \/ ~DAG_isValid(d, to) THEN d
  ELSE IF indexOf(d[from + 1].out, to) # 0
       THEN [i \in 1 .. Len(d) |->
               IF i = from + 1
               THEN [d[i] EXCEPT !.out = splice(@, indexOf(d[from + 1].out, to))]
               ELSE IF i = to + 1 THEN [d[i] EXCEPT !.incoming = @ - 1]
               ELSE d[i]]
       ELSE d

Max(a, b) == IF a >= b THEN a ELSE b

\* The loop below with newDepth = max(child.depth, node.depth), the + 1 lost.
RECURSIVE VisitChildren_SameDepth(_, _, _, _)
VisitChildren_SameDepth(st, nodeIdx, children, k) ==
  IF k > Len(children) THEN st
  ELSE LET childIdx == children[k]
           inc == [st.incoming EXCEPT ![childIdx + 1] = @ - 1]
           newDepth == Max(st.nodes[childIdx + 1].depth, st.nodes[nodeIdx + 1].depth)
           nodes == [st.nodes EXCEPT ![childIdx + 1].depth = newDepth]
           stack == IF inc[childIdx + 1] = 0 THEN Append(st.startNodes, childIdx)
                    ELSE st.startNodes
       IN VisitChildren_SameDepth(
            [st EXCEPT !.incoming = inc, !.nodes = nodes, !.startNodes = stack],
            nodeIdx, children, k + 1)

\* The for loop over node.outConnections of one popped node: st carries the
\* nodes (depths), the working incoming counts and the startNodes stack.
RECURSIVE VisitChildren(_, _, _, _)
VisitChildren(st, nodeIdx, children, k) ==
  IF k > Len(children) THEN st
  ELSE LET childIdx == children[k]
           inc == [st.incoming EXCEPT ![childIdx + 1] = @ - 1]
           newDepth == Max(st.nodes[childIdx + 1].depth, st.nodes[nodeIdx + 1].depth + 1)
           nodes == [st.nodes EXCEPT ![childIdx + 1].depth = newDepth]
           stack == IF inc[childIdx + 1] = 0 THEN Append(st.startNodes, childIdx)
                    ELSE st.startNodes
       IN VisitChildren([st EXCEPT !.incoming = inc, !.nodes = nodes, !.startNodes = stack],
                        nodeIdx, children, k + 1)

\* The while loop: pop the last element of startNodes and visit its children.
RECURSIVE DepthLoop(_)
DepthLoop(st) ==
  IF Len(st.startNodes) = 0 THEN st
  ELSE LET nodeIdx == st.startNodes[Len(st.startNodes)]
           popped == [st EXCEPT !.startNodes = SubSeq(@, 1, Len(@) - 1),
                                !.popped = Append(@, nodeIdx)]
       IN DepthLoop(VisitChildren(popped, nodeIdx, st.nodes[nodeIdx + 1].out, 1))

\* The first for loop: nodes without incoming edge get depth 0 and are pushed.
RECURSIVE SeedStart(_, _)
SeedStart(st, i) ==
  IF i >= Len(st.nodes) THEN st
  ELSE IF st.incoming[i + 1] = 0
       THEN SeedStart([st EXCEPT !.nodes[i + 1].depth = 0,
                                 !.startNodes = Append(@, i)], i + 1)
       ELSE SeedStart(st, i + 1)

DepthRun(d) ==
  DepthLoop(SeedStart([nodes |-> d,
                       incoming |-> [i \in 1 .. Len(d) |-> d[i].incoming],
                       startNodes |-> <<>>,
                       popped |-> <<>>], 0))

DAG_computeDepth(d) == DepthRun(d).nodes

\* The insertion below with the comparator's operands exchanged (b before a).
RECURSIVE InsertByDepth_Descending(_, _, _)
InsertByDepth_Descending(sorted, x, depthOf) ==
  IF Len(sorted) = 0 THEN <<x>>
  ELSE IF depthOf[x + 1] - depthOf[sorted[Len(sorted)] + 1] <= 0 THEN Append(sorted, x)
  ELSE Append(InsertByDepth_Descending(SubSeq(sorted, 1, Len(sorted) - 1), x, depthOf),
              sorted[Len(sorted)])

\* Array.prototype.sort with a comparator is a stable sort: insert each
\* element after the last element that does not compare greater.
RECURSIVE InsertByDepth(_, _, _)
InsertByDepth(sorted, x, depthOf) ==
  IF Len(sorted) = 0 THEN <<x>>
  ELSE IF depthOf[sorted[Len(sorted)] + 1] - depthOf[x + 1] <= 0 THEN Append(sorted, x)
  ELSE Append(InsertByDepth(SubSeq(sorted, 1, Len(sorted) - 1), x, depthOf),
              sorted[Len(sorted)])

RECURSIVE SortByDepth(_, _)
SortByDepth(n, depthOf) ==
  IF n = 0 THEN <<>>
  ELSE InsertByDepth(SortByDepth(n - 1, depthOf), n - 1, depthOf)

DAG_getTopologicalOrder(d) == SortByDepth(Len(d), [i \in 1 .. Len(d) |-> d[i].depth])

(***************************************************************************)
(* DAG, second implementation (src/src/dag.ts lines 185-346).  Reading a   *)
(* property of this.nodes[i] for an i that is no index of the array raises *)
(* a TypeError.                                                            *)
(***************************************************************************)
DAG2_createNode(d) == Append(d, DAGNode)

DAG2_isValid(d, i) == i < Len(d)

\* this.nodes[i] is undefined.
Undefined(d, i) == i < 0 \/ i >= Len(d)

\* Only evaluated where nodes[node1] is defined.
DAG2_isParent(d, node1, node2) == includes(d[node1 + 1].out, node2)

RECURSIVE DAG2_isAncestor(_, _, _)
DAG2_isAncestor(d, node1, node2) ==
  DAG2_isParent(d, node1, node2)
  \/ \E k \in 1 .. Len(d[node1 + 1].out) : DAG2_isAncestor(d, d[node1 + 1].out[k], node2)

DAG2_createConnection(d, from, to) ==
  IF ~DAG2_isValid(d, from) THEN [dag |-> d, ret |-> "false"]
  ELSE IF ~DAG2_isValid(d, to) THEN [dag |-> d, ret |-> "false"]
  ELSE IF from = to THEN [dag |-> d, ret |-> "false"]
  ELSE IF Undefined(d, to) THEN [dag |-> d, ret |-> "TypeError"]
  ELSE IF DAG2_isAncestor(d, to, from) THEN [dag |-> d, ret |-> "false"]
  ELSE IF Undefined(d, from) THEN [dag |-> d, ret |-> "TypeError"]
  ELSE IF DAG2_isParent(d, from, to) THEN [dag |-> d, ret |-> "false"]
  ELSE [dag |-> AddEdge(d, from, to), ret |-> "true"]

\* The swap-with-last removal loop; st carries the nodes, i and found.
RECURSIVE RemoveLoop(_, _, _, _, _)
RemoveLoop(d, from, to, i, found) ==
  LET connections == d[from + 1].out IN
  IF ~(i < Len(connections) - found) THEN [dag |-> d, found |-> found]
  ELSE IF connections[i + 1] = to
       THEN LET swapped == [connections EXCEPT ![i + 1] = connections[Len(connections)]]
                shorter == SubSeq(swapped, 1, Len(swapped) - 1)
                d1 == [d EXCEPT ![from + 1].out = shorter]
                d2 == [d1 EXCEPT ![to + 1].incoming = @ - 1]
            IN RemoveLoop(d2, from, to, i, found + 1)
       ELSE RemoveLoop(d, from, to, i + 1, found)

DAG2_removeConnection(d, from, to) ==
  IF Undefined(d, from) THEN [dag |-> d, ret |-> "TypeError"]
  ELSE LET r == RemoveLoop(d, from, to, 0, 0)
       IN [dag |-> r.dag, ret |-> IF r.found = 0 THEN "warn" ELSE "void"]

DAG2_computeDepth(d) == DepthRun(d).nodes

DAG2_getOrder(d) == SortByDepth(Len(d), [i \in 1 .. Len(d) |-> d[i].depth])

(***************************************************************************)
(* Genome (src/src/genome.ts).  A genome value holds its nodes, its        *)
(* connections, its embedded DAG (first implementation) and its info.      *)
(* Weights and biases are integers here: the operations below only copy    *)
(* them.                                                                   *)
(***************************************************************************)
GenomeNode(id, type, activation) ==
  [id |-> id, type |-> type, activation |-> activation, bias |-> 0, depth |-> 0]

GenomeConnection(from, to, weight) ==
  [from |-> from, to |-> to, weight |-> weight, enabled |-> TRUE]

\* createNode without the hidden count.
Genome_createNode_NoCount(g, activation, type) ==
  [genome |-> [g EXCEPT !.dag = DAG_createNode(g.dag),
                        !.nodes = Append(@, GenomeNode(Len(g.dag), type, activation))],
   ret |-> Len(g.dag)]

Genome_createNode(g, activation, type) ==
  LET nodeId == Len(DAG_createNode(g.dag)) - 1
      pushed == [g EXCEPT !.dag = DAG_createNode(g.dag),
                          !.nodes = Append(@, GenomeNode(nodeId, type, activation))]
  IN [genome |-> IF type = "hidden" THEN [pushed EXCEPT !.info.hidden = @ + 1] ELSE pushed,
      ret |-> nodeId]

\* The constructor's two loops.
RECURSIVE CreateNodes(_, _, _, _)
CreateNodes(g, n, activation, type) ==
  IF n = 0 THEN g
  ELSE CreateNodes(Genome_createNode(g, activation, type).genome, n - 1, activation, type)

Genome_new(inputs, outputs) ==
  CreateNodes(
    CreateNodes([nodes |-> <<>>, connections |-> <<>>, dag |-> <<>>,
                 info |-> [inputs |-> inputs, outputs |-> outputs, hidden |-> 0]],
                inputs, "none", "input"),
    outputs, "tanh", "output")

\* createConnection that records the connection whatever the DAG answers.
Genome_createConnection_Forced(g, from, to, weight) ==
  [genome |-> [g EXCEPT !.dag = DAG_createConnection(g.dag, from, to).dag,
                        !.connections = Append(@, GenomeConnection(from, to, weight))],
   ret |-> "true"]

\* createConnection that adds the edge to the DAG and answers true without
\* recording the connection.
Genome_createConnection_NoRecord(g, from, to, weight) ==
  LET r == DAG_createConnection(g.dag, from, to)
  IN IF r.ret = "true"
     THEN [genome |-> [g EXCEPT !.dag = r.dag], ret |-> "true"]
     ELSE [genome |-> g, ret |-> "false"]

Genome_createConnection(g, from, to, weight) ==
  LET r == DAG_createConnection(g.dag, from, to)
  IN IF r.ret = "true"
     THEN [genome |-> [g EXCEPT !.dag = r.dag,
                                !.connections = Append(@, GenomeConnection(from, to, weight))],
           ret |-> "true"]
     ELSE [genome |-> g, ret |-> "false"]

\* splitConnection with the two new weights exchanged.
Genome_splitConnection_WeightsSwapped(g, connectionIndex) ==
  IF connectionIndex < 0 \/ connectionIndex >= Len(g.connections)
  THEN [genome |-> g, ret |-> "false"]
  ELSE LET connection == g.connections[connectionIndex + 1] IN
       IF ~connection.enabled THEN [genome |-> g, ret |-> "false"]
       ELSE LET created == Genome_createNode(g, "relu", "hidden")
                disabled == [created.genome EXCEPT
                               !.connections[connectionIndex + 1].enabled = FALSE]
                first == Genome_createConnection(disabled, connection.from, created.ret,
                                                 1).genome
                second == Genome_createConnection(first, created.ret, connection.to,
                                                  connection.weight).genome
            IN [genome |-> second, ret |-> "true"]

\* splitConnection with the range test connectionIndex > length: the index
\* equal to the length reads an undefined connection.
Genome_splitConnection_OffByOne(g, connectionIndex) ==
  IF connectionIndex < 0 \/ connectionIndex > Len(g.connections)
  THEN [genome |-> g, ret |-> "false"]
  ELSE IF connectionIndex = Len(g.connections) THEN [genome |-> g, ret |-> "TypeError"]
  ELSE LET connection == g.connections[connectionIndex + 1] IN
       IF ~connection.enabled THEN [genome |-> g, ret |-> "false"]
       ELSE LET created == Genome_createNode(g, "relu", "hidden")
                disabled == [created.genome EXCEPT
                               !.connections[connectionIndex + 1].enabled = FALSE]
                first == Genome_createConnection(disabled, connection.from, created.ret,
                                                 connection.weight).genome
                second == Genome_createConnection(first, created.ret, connection.to, 1).genome
            IN [genome |-> second, ret |-> "true"]

\* splitConnection that takes the edge of the disabled connection out of
\* the DAG.
Genome_splitConnection_DropsEdge(g, connectionIndex) ==
  IF connectionIndex < 0 \/ connectionIndex >= Len(g.connections)
  THEN [genome |-> g, ret |-> "false"]
  ELSE LET connection == g.connections[connectionIndex + 1] IN
       IF ~connection.enabled THEN [genome |-> g, ret |-> "false"]
       ELSE LET created == Genome_createNode(g, "relu", "hidden")
                disabled == [created.genome EXCEPT
                               !.connections[connectionIndex + 1].enabled = FALSE,
                               !.dag = DAG_removeConnection(@, connection.from, connection.to)]
                first == Genome_createConnection(disabled, connection.from, created.ret,
                                                 connection.weight).genome
                second == Genome_createConnection(first, created.ret, connection.to, 1).genome
            IN [genome |-> second, ret |-> "true"]

Genome_splitConnection(g, connectionIndex) ==
  IF connectionIndex < 0 \/ connectionIndex >= Len(g.connections)
  THEN [genome |-> g, ret |-> "false"]
  ELSE LET connection == g.connections[connectionIndex + 1] IN
       IF ~connection.enabled THEN [genome |-> g, ret |-> "false"]
       ELSE LET created == Genome_createNode(g, "relu", "hidden")
                disabled == [created.genome EXCEPT
                               !.connections[connectionIndex + 1].enabled = FALSE]
                first == Genome_createConnection(disabled, connection.from, created.ret,
                                                 connection.weight).genome
                second == Genome_createConnection(first, created.ret, connection.to, 1).genome
            IN [genome |-> second, ret |-> "true"]

\* removeConnection that drops the record and leaves the DAG as it is.
Genome_removeConnection_RecordOnly(g, connectionIndex) ==
  IF connectionIndex < 0 \/ connectionIndex >= Len(g.connections) THEN g
  ELSE [g EXCEPT !.connections = splice(@, connectionIndex + 1)]

Genome_removeConnection(g, connectionIndex) ==
  IF connectionIndex < 0 \/ connectionIndex >= Len(g.connections) THEN g
  ELSE LET connection == g.connections[connectionIndex + 1]
       IN [g EXCEPT !.dag = DAG_removeConnection(g.dag, connection.from, connection.to),
                    !.connections = splice(@, connectionIndex + 1)]

Genome_isInputNode(g, nodeId) == nodeId < g.info.inputs

\* isOutputNode without its lower limit.
Genome_isOutputNode_NoLowerLimit(g, nodeId) == nodeId < g.info.inputs + g.info.outputs

Genome_isOutputNode(g, nodeId) ==
  nodeId >= g.info.inputs /\ nodeId < g.info.inputs + g.info.outputs

Genome_isHiddenNode(g, nodeId) == nodeId >= g.info.inputs + g.info.outputs

\* clone: the loop over the nodes that re-creates the hidden ones.
RECURSIVE CloneHidden(_, _, _)
CloneHidden(clone, nodes, k) ==
  IF k > Len(nodes) THEN clone
  ELSE IF nodes[k].type = "hidden"
       THEN CloneHidden(Genome_createNode(clone, nodes[k].activation, "hidden").genome,
                        nodes, k + 1)
       ELSE CloneHidden(clone, nodes, k + 1)

\* clone: the loop over the connections that re-creates the enabled ones.
RECURSIVE CloneConnections(_, _, _)
CloneConnections(clone, connections, k) ==
  IF k > Len(connections) THEN clone
  ELSE IF connections[k].enabled
       THEN CloneConnections(
              Genome_createConnection(clone, connections[k].from, connections[k].to,
                                      connections[k].weight).genome,
              connections, k + 1)
       ELSE CloneConnections(clone, connections, k + 1)

\* clone: the loop that copies the biases by index.
RECURSIVE CloneBiasesFrom(_, _, _)
CloneBiasesFrom(clone, nodes, k) ==
  IF k > Len(nodes) THEN clone
  ELSE IF k <= Len(clone.nodes)
       THEN CloneBiasesFrom([clone EXCEPT !.nodes[k].bias = nodes[k].bias], nodes, k + 1)
       ELSE CloneBiasesFrom(clone, nodes, k + 1)

CloneBiases(clone, nodes) == CloneBiasesFrom(clone, nodes, 1)

Genome_clone(g) ==
  CloneBiases(
    CloneConnections(
      CloneHidden(Genome_new(g.info.inputs, g.info.outputs), g.nodes, 1),
      g.connections, 1),
    g.nodes)

(***************************************************************************)
(* Genome depths and order (src/src/genome.ts) and the network generator   *)
(* of src/src/network-generator.ts.  A compiled network holds its info,    *)
(* its nodes in compiled order and its flat connection list; positions in  *)
(* the compiled node list count from 0.                                    *)
(***************************************************************************)
RECURSIVE MaxDepthOf(_, _)
MaxDepthOf(nodes, n) ==
  IF n = 0 THEN -1 ELSE Max(nodes[n].depth, MaxDepthOf(nodes, n - 1))

\* computeDepth that leaves the output nodes at the depth the DAG gave them.
Genome_computeDepth_NoOutputDepth(g) ==
  LET d == DAG_computeDepth(g.dag)
  IN [g EXCEPT !.dag = d,
               !.nodes = [i \in 1 .. Len(g.nodes) |-> [g.nodes[i] EXCEPT !.depth = d[i].depth]]]

Genome_computeDepth(g) ==
  LET d == DAG_computeDepth(g.dag)
      copied == [i \in 1 .. Len(g.nodes) |-> [g.nodes[i] EXCEPT !.depth = d[i].depth]]
      maxDepth == MaxDepthOf(copied, Len(copied))
      outputDepth == Max(maxDepth, 1)
  IN [g EXCEPT !.dag = d,
               !.nodes = [i \in 1 .. Len(copied) |->
                            IF i - 1 >= g.info.inputs /\ i - 1 < g.info.inputs + g.info.outputs
                            THEN [copied[i] EXCEPT !.depth = outputDepth]
                            ELSE copied[i]]]

\* getTopologicalOrder that sorts by the depths found in the genome and only
\* then recomputes them.
Genome_getTopologicalOrder_StaleDepths(g) ==
  [genome |-> Genome_computeDepth(g),
   order |-> SortByDepth(Len(g.nodes), [i \in 1 .. Len(g.nodes) |-> g.nodes[i].depth])]

\* A sort by depth that puts an element before the elements of its depth.
RECURSIVE InsertByDepth_BeforeEqual(_, _, _)
InsertByDepth_BeforeEqual(sorted, x, depthOf) ==
  IF Len(sorted) = 0 THEN <<x>>
  ELSE IF depthOf[sorted[Len(sorted)] + 1] - depthOf[x + 1] < 0 THEN Append(sorted, x)
  ELSE Append(InsertByDepth_BeforeEqual(SubSeq(sorted, 1, Len(sorted) - 1), x, depthOf),
              sorted[Len(sorted)])

RECURSIVE SortByDepth_BeforeEqual(_, _)
SortByDepth_BeforeEqual(n, depthOf) ==
  IF n = 0 THEN <<>>
  ELSE InsertByDepth_BeforeEqual(SortByDepth_BeforeEqual(n - 1, depthOf), n - 1, depthOf)

\* getTopologicalOrder with a sort that is not stable.
Genome_getTopologicalOrder_Unstable(g) ==
  LET c == Genome_computeDepth(g)
  IN [genome |-> c,
      order |-> SortByDepth_BeforeEqual(Len(c.nodes),
                                        [i \in 1 .. Len(c.nodes) |-> c.nodes[i].depth])]

\* getTopologicalOrder answers the order and leaves the depths in the genome.
Genome_getTopologicalOrder(g) ==
  LET c == Genome_computeDepth(g)
  IN [genome |-> c,
      order |-> SortByDepth(Len(c.nodes), [i \in 1 .. Len(c.nodes) |-> c.nodes[i].depth])]

\* indexToOrder[order[i]] = i.
IndexToOrder(order, index) == (CHOOSE k \in 1 .. Len(order) : order[k] = index) - 1

\* connections.filter(conn => conn.from === originalIndex) without the test
\* of conn.enabled.
RECURSIVE ValidConnections_AlsoDisabled(_, _)
ValidConnections_AlsoDisabled(connections, originalIndex) ==
  IF Len(connections) = 0 THEN <<>>
  ELSE LET rest == ValidConnections_AlsoDisabled(Tail(connections), originalIndex)
       IN IF Head(connections).from = originalIndex
          THEN <<Head(connections)>> \o rest ELSE rest

\* connections.filter(conn => conn.from === originalIndex && conn.enabled)
RECURSIVE ValidConnections(_, _)
ValidConnections(connections, originalIndex) ==
  IF Len(connections) = 0 THEN <<>>
  ELSE LET rest == ValidConnections(Tail(connections), originalIndex)
       IN IF Head(connections).from = originalIndex /\ Head(connections).enabled
          THEN <<Head(connections)>> \o rest ELSE rest

\* The first loop over order: one builder.addNode per node.
AddNodes(g, order) ==
  [p \in 1 .. Len(order) |->
     LET node == g.nodes[order[p] + 1]
     IN [activation |-> node.activation, bias |-> node.bias, depth |-> node.depth,
         connectionCount |-> Len(ValidConnections(g.connections, order[p])), sum |-> 0]]

\* The second loop over order: one builder.addConnection per enabled
\* connection of the node, the target translated by indexToOrder.
RECURSIVE AddConnections(_, _, _)
AddConnections(g, order, p) ==
  IF p > Len(order) THEN <<>>
  ELSE LET valid == ValidConnections(g.connections, order[p])
       IN [k \in 1 .. Len(valid) |->
             [to |-> IndexToOrder(order, valid[k].to), weight |-> valid[k].weight, value |-> 0]]
          \o AddConnections(g, order, p + 1)

\* generate(genome): the genome with its depths recomputed, and the network.
NetworkGenerator_generate(g) ==
  LET t == Genome_getTopologicalOrder(g)
  IN [genome |-> t.genome,
      order |-> t.order,
      ret |-> "network",
      net |-> [info |-> t.genome.info,
               nodes |-> AddNodes(t.genome, t.order),
               connections |-> AddConnections(t.genome, t.order, 1),
               output |-> [k \in 1 .. t.genome.info.outputs |-> 0]]]

(***************************************************************************)
(* Network (src/src/network.ts).  The slots array holds the nodes first    *)
(* and the connections after them; it is kept here as the two lists nodes  *)
(* and connections.  Values are integers: none and relu are computed as    *)
(* the code computes them, tanh and sigm by their limits for large         *)
(* arguments.                                                              *)
(***************************************************************************)
Abs(x) == IF x < 0 THEN -x ELSE x

Sign(x) == IF x > 0 THEN 1 ELSE IF x < 0 THEN -1 ELSE 0

ActivationFunction(activation, x) ==
  CASE activation = "none" -> x
    [] activation = "relu" -> (x + Abs(x)) \div 2
    [] activation = "tanh" -> Sign(x)
    [] activation \in {"sigm", "sigmoid"} -> IF x > 0 THEN 1 ELSE 0
    [] OTHER -> x

getNodeCount(info) == info.inputs + info.hidden + info.outputs

NetworkNode == [activation |-> "none", sum |-> 0, bias |-> 0, connectionCount |-> 0, depth |-> 0]

NetworkConnection == [to |-> 0, weight |-> 0, value |-> 0]

Network_initialize(info, connectionCount) ==
  [info |-> info,
   nodes |-> [i \in 1 .. getNodeCount(info) |-> NetworkNode],
   connections |-> [i \in 1 .. connectionCount |-> NetworkConnection],
   output |-> [i \in 1 .. info.outputs |-> 0],
   maxDepth |-> 0]

\* getNode(i) answers a node for a node slot; for a connection slot it throws
\* an Error and past the slots the read of slot.type is a TypeError.
IsNodeSlot(n, i) == i >= 0 /\ i < getNodeCount(n.info)

getNodeFailure(n, i) ==
  IF i >= getNodeCount(n.info) /\ i < getNodeCount(n.info) + Len(n.connections)
  THEN "Error" ELSE "TypeError"

\* getConnection(i) reads slots[getNodeCount() + i].
IsConnectionSlot(n, i) == i >= 0 /\ i < Len(n.connections)

getValue(node) == ActivationFunction(node.activation, node.sum + node.bias)

\* setNode(i, activation, bias, connectionCount) on a node slot.
Network_setNode(n, i, activation, bias, connectionCount) ==
  [n EXCEPT !.nodes[i + 1] = [@ EXCEPT !.activation = activation,
                                       !.bias = bias,
                                       !.connectionCount = connectionCount]]

\* setConnection(i, to, weight) on a connection slot.
Network_setConnection(n, i, to, weight) ==
  [n EXCEPT !.connections[i + 1] = [@ EXCEPT !.to = to, !.weight = weight]]

\* One pass of the inner loop of execute with the product added to the source
\* node's own accumulator instead of the target's.
Fire_IntoSource(st, i, value) ==
  IF ~IsConnectionSlot(st.net, st.currentConnection) THEN [st EXCEPT !.ret = "TypeError"]
  ELSE [st EXCEPT !.currentConnection = @ + 1,
                  !.net.connections[st.currentConnection + 1].value =
                     value * st.net.connections[st.currentConnection + 1].weight,
                  !.net.nodes[i + 1].sum =
                     @ + value * st.net.connections[st.currentConnection + 1].weight]

\* One pass of the inner loop of execute: the connection under the cursor
\* currentConnection gets its value, which is added to its target's sum.
Fire(st, i, value) ==
  IF ~IsConnectionSlot(st.net, st.currentConnection) THEN [st EXCEPT !.ret = "TypeError"]
  ELSE IF ~IsNodeSlot(st.net, st.net.connections[st.currentConnection + 1].to)
       THEN [st EXCEPT !.currentConnection = @ + 1,
                       !.net.connections[st.currentConnection + 1].value =
                          value * st.net.connections[st.currentConnection + 1].weight,
                       !.ret = getNodeFailure(st.net,
                                              st.net.connections[st.currentConnection + 1].to)]
  ELSE [st EXCEPT !.currentConnection = @ + 1,
                  !.net.connections[st.currentConnection + 1].value =
                     value * st.net.connections[st.currentConnection + 1].weight,
                  !.net.nodes[st.net.connections[st.currentConnection + 1].to + 1].sum =
                     @ + value * st.net.connections[st.currentConnection + 1].weight]

\* The inner loop of execute for node i, o counting its connections.
RECURSIVE FireConnections(_, _, _, _)
FireConnections(st, i, value, o) ==
  IF st.ret # "running" \/ o >= st.net.nodes[i + 1].connectionCount THEN st
  ELSE CHOOSE after \in
         {FireConnections(fired, i, value, o + 1) : fired \in {Fire(st, i, value)}} : TRUE

\* The outer loop of execute over the nodes in array order; the node's value
\* is read once, before its connections fire.
RECURSIVE ExecuteNodes(_, _)
ExecuteNodes(st, i) ==
  IF st.ret # "running" \/ i >= getNodeCount(st.net.info) THEN st
  ELSE CHOOSE after \in
         {ExecuteNodes(done, i + 1) :
            done \in {FireConnections(st, i, value, 0) :
                        value \in {getValue(st.net.nodes[i + 1])}}} : TRUE

\* getOutput(i) is the node at inputs + hidden + i.
getOutput(n, i) == n.nodes[n.info.inputs + n.info.hidden + i + 1]

\* The result of execute once the loop over the nodes has ended.
Executed(run) ==
  IF run.ret # "running" THEN [net |-> run.net, ret |-> run.ret]
  ELSE [net |-> [run.net EXCEPT !.output =
                   [k \in 1 .. run.net.info.outputs |-> getValue(getOutput(run.net, k - 1))]],
        ret |-> "true"]

\* execute past its test of the input length without the reset: the input
\* nodes are seeded, the other accumulators start from what they hold.
ExecuteRun_NoReset(n, input) ==
  CHOOSE r \in
    {Executed(run) :
       run \in {ExecuteNodes(
                  [net |-> [n EXCEPT !.nodes = [i \in 1 .. Len(n.nodes) |->
                                                  [n.nodes[i] EXCEPT !.sum =
                                                     IF i <= n.info.inputs THEN input[i] ELSE @]]],
                   currentConnection |-> 0, ret |-> "running"], 0)}} : TRUE

\* execute past its test of the input length: reset, seed, run, read.
ExecuteRun(n, input) ==
  CHOOSE r \in
    {Executed(run) :
       run \in {ExecuteNodes(
                  [net |-> [n EXCEPT !.nodes = [i \in 1 .. Len(n.nodes) |->
                                                  [n.nodes[i] EXCEPT !.sum =
                                                     IF i <= n.info.inputs THEN input[i] ELSE 0]]],
                   currentConnection |-> 0, ret |-> "running"], 0)}} : TRUE

\* execute that resets the accumulators before it tests the input length.
Network_execute_ResetFirst(n, input) ==
  IF Len(input) # n.info.inputs
  THEN [net |-> [n EXCEPT !.nodes = [i \in 1 .. Len(n.nodes) |-> [n.nodes[i] EXCEPT !.sum = 0]]],
        ret |-> "false"]
  ELSE ExecuteRun(n, input)

Network_execute(n, input) ==
  IF Len(input) # n.info.inputs THEN [net |-> n, ret |-> "false"]
  ELSE ExecuteRun(n, input)

(***************************************************************************)
(* The Genome of the second implementation, the one the generator of       *)
(* src/unnamed/part_004 compiles: its nodes carry activation, bias and     *)
(* depth, its connections from, to and weight, and its graph is a DAG of   *)
(* the second implementation.  Its operations follow section 4.2 of the    *)
(* specification.                                                          *)
(***************************************************************************)
Genome2_createNode(g, activation, hidden) ==
  [genome |-> [g EXCEPT !.graph = DAG2_createNode(@),
                        !.nodes = Append(@, [activation |-> activation, bias |-> 0, depth |-> 0]),
                        !.info.hidden = IF hidden THEN @ + 1 ELSE @],
   ret |-> Len(g.nodes)]

RECURSIVE CreateNodes2(_, _, _)
CreateNodes2(g, n, activation) ==
  IF n = 0 THEN g
  ELSE CreateNodes2(Genome2_createNode(g, activation, FALSE).genome, n - 1, activation)

Genome2_new(inputs, outputs) ==
  CreateNodes2(
    CreateNodes2([nodes |-> <<>>, connections |-> <<>>, graph |-> <<>>,
                  info |-> [inputs |-> inputs, outputs |-> outputs, hidden |-> 0]],
                 inputs, "none"),
    outputs, "tanh")

Genome2_tryCreateConnection(g, from, to, weight) ==
  LET r == DAG2_createConnection(g.graph, from, to)
  IN IF r.ret = "true"
     THEN [genome |-> [g EXCEPT !.graph = r.dag,
                                !.connections = Append(@, [from |-> from, to |-> to,
                                                           weight |-> weight])],
           ret |-> "true"]
     ELSE [genome |-> g, ret |-> r.ret]

\* removeConnection(index): the order of the remaining records is left open
\* by the specification; they keep their order here.
Genome2_removeConnection(g, index) ==
  LET c == g.connections[index + 1]
  IN [g EXCEPT !.graph = DAG2_removeConnection(@, c.from, c.to).dag,
               !.connections = splice(@, index + 1)]

Genome2_splitConnection(g, index) ==
  IF index < 0 \/ index >= Len(g.connections) THEN g
  ELSE LET c == g.connections[index + 1]
           removed == Genome2_removeConnection(g, index)
           created == Genome2_createNode(removed, "relu", TRUE)
           first == Genome2_tryCreateConnection(created.genome, c.from, created.ret,
                                                c.weight).genome
       IN Genome2_tryCreateConnection(first, created.ret, c.to, 1).genome

Genome2_computeDepth(g) ==
  LET d == DAG2_computeDepth(g.graph)
      copied == [i \in 1 .. Len(g.nodes) |-> [g.nodes[i] EXCEPT !.depth = d[i].depth]]
      outputDepth == Max(MaxDepthOf(copied, Len(copied)), 1)
  IN [g EXCEPT !.graph = d,
               !.nodes = [i \in 1 .. Len(copied) |->
                            IF i - 1 >= g.info.inputs /\ i - 1 < g.info.inputs + g.info.outputs
                            THEN [copied[i] EXCEPT !.depth = outputDepth]
                            ELSE copied[i]]]

\* No network has been compiled.
NoNetwork == [info |-> [inputs |-> 0, outputs |-> 0, hidden |-> 0],
              nodes |-> <<>>, connections |-> <<>>, output |-> <<>>]

(***************************************************************************)
(* The network generator of the second implementation                      *)
(* (src/unnamed/part_004).                                                 *)
(***************************************************************************)
RECURSIVE SortSeqByDepth(_, _)
SortSeqByDepth(ids, depthOf) ==
  IF Len(ids) = 0 THEN <<>>
  ELSE InsertByDepth(SortSeqByDepth(SubSeq(ids, 1, Len(ids) - 1), depthOf),
                     ids[Len(ids)], depthOf)

\* getOrder past computeDepth: the inputs keep their places, the rest is
\* sorted by depth.
SortPastInputs(c) ==
  LET order == [i \in 1 .. Len(c.nodes) |-> i - 1]
      inputsPart == SubSeq(order, 1, c.info.inputs)
      restPart == SubSeq(order, c.info.inputs + 1, Len(order))
  IN inputsPart \o SortSeqByDepth(restPart, [i \in 1 .. Len(c.nodes) |-> c.nodes[i].depth])

NetworkGenerator2_getOrder(g) ==
  LET c == Genome2_computeDepth(g)
  IN [genome |-> c, order |-> SortPastInputs(c)]

\* The loop over genome.connections for the node o at position st.nodeIdx,
\* without the test target <= nodeIdx.
RECURSIVE CreateItsConnections_Unchecked(_, _, _, _, _)
CreateItsConnections_Unchecked(st, g, order, o, k) ==
  IF st.ret # "running" \/ k > Len(g.connections) THEN st
  ELSE IF g.connections[k].from # o THEN CreateItsConnections_Unchecked(st, g, order, o, k + 1)
  ELSE CHOOSE after \in
         {CreateItsConnections_Unchecked(set, g, order, o, k + 1) :
            set \in {[st EXCEPT !.net.connections[st.connectionIdx + 1] =
                                  [@ EXCEPT !.to = IndexToOrder(order, g.connections[k].to),
                                            !.weight = g.connections[k].weight],
                                !.connectionIdx = @ + 1]}} : TRUE

\* The loop over genome.connections for the node o at position st.nodeIdx:
\* set is the state after setConnection and connectionIdx++.
RECURSIVE CreateItsConnections(_, _, _, _, _)
CreateItsConnections(st, g, order, o, k) ==
  IF st.ret # "running" \/ k > Len(g.connections) THEN st
  ELSE IF g.connections[k].from # o THEN CreateItsConnections(st, g, order, o, k + 1)
  ELSE IF IndexToOrder(order, g.connections[k].to) <= st.nodeIdx THEN [st EXCEPT !.ret = "Error"]
  ELSE CHOOSE after \in
         {CreateItsConnections(set, g, order, o, k + 1) :
            set \in {[st EXCEPT !.net.connections[st.connectionIdx + 1] =
                                  [@ EXCEPT !.to = IndexToOrder(order, g.connections[k].to),
                                            !.weight = g.connections[k].weight],
                                !.connectionIdx = @ + 1]}} : TRUE

\* The loop over order: setNode, setNodeDepth, the node's connections and
\* nodeIdx++.
RECURSIVE CreateNodesAndConnections(_, _, _, _)
CreateNodesAndConnections(st, g, order, p) ==
  IF st.ret # "running" \/ p > Len(order) THEN st
  ELSE IF ~IsNodeSlot(st.net, st.nodeIdx)
       THEN [st EXCEPT !.ret = getNodeFailure(st.net, st.nodeIdx)]
  ELSE CHOOSE after \in
         {CreateNodesAndConnections([done EXCEPT !.nodeIdx = @ + 1], g, order, p + 1) :
            done \in {CreateItsConnections(set, g, order, order[p], 1) :
              set \in {[st EXCEPT !.net.nodes[st.nodeIdx + 1] =
                          [@ EXCEPT !.activation = g.nodes[order[p] + 1].activation,
                                    !.bias = g.nodes[order[p] + 1].bias,
                                    !.connectionCount = Len(g.graph[order[p] + 1].out),
                                    !.depth = g.nodes[order[p] + 1].depth]]}}} : TRUE

\* The network after the loop, with maxDepth read from the last node set.
Generated(t, run) ==
  IF run.ret # "running"
  THEN [genome |-> t.genome, order |-> t.order, ret |-> run.ret, net |-> NoNetwork]
  ELSE IF ~IsNodeSlot(run.net, run.nodeIdx - 1)
       THEN [genome |-> t.genome, order |-> t.order, ret |-> "TypeError", net |-> NoNetwork]
  ELSE [genome |-> t.genome,
        order |-> t.order,
        ret |-> "network",
        net |-> [run.net EXCEPT !.maxDepth = run.net.nodes[run.nodeIdx].depth]]

\* generate past getOrder: t holds the genome with its depths and the order.
Compile(t) ==
  CHOOSE r \in
    {Generated(t, run) :
       run \in {CreateNodesAndConnections(
                  [net |-> Network_initialize(t.genome.info, Len(t.genome.connections)),
                   nodeIdx |-> 0, connectionIdx |-> 0, ret |-> "running"],
                  t.genome, t.order, 1)}} : TRUE

\* generate(genome): the genome with its depths recomputed and either the
\* network or the error thrown.
NetworkGenerator2_generate(g) ==
  CHOOSE r \in {Compile(t) : t \in {NetworkGenerator2_getOrder(g)}} : TRUE

(***************************************************************************)
(* Mutator (src/src/mutator.ts).  The genome objects live in a heap, a     *)
(* sequence of genomes, and a genome reference is a position in it: clone  *)
(* allocates a new object, every other operation writes to the object it   *)
(* is called on.  The draws of the random generator are choices: mutate    *)
(* is the set of the results it can end with.  Weights and biases are      *)
(* integers.                                                               *)
(***************************************************************************)
\* randomRange(-config.weightRange, config.weightRange).
RangeDraws == {-1, 1}

Genome_updateNodeBias(g, nodeIndex, bias) ==
  IF nodeIndex >= 0 /\ nodeIndex < Len(g.nodes)
  THEN [g EXCEPT !.nodes[nodeIndex + 1].bias = bias]
  ELSE g

Genome_updateConnectionWeight(g, connectionIndex, weight) ==
  IF connectionIndex >= 0 /\ connectionIndex < Len(g.connections)
  THEN [g EXCEPT !.connections[connectionIndex + 1].weight = weight]
  ELSE g

\* The new value of a bias or weight: a fresh draw, the old value plus a
\* draw, or the old value plus weightSmallRange times a draw.
NewValues(old, config) ==
  {r : r \in RangeDraws}
    \cup {old + r : r \in RangeDraws}
    \cup {old + config.weightSmallRange * r : r \in RangeDraws}

Mutator_mutateBiases(g, config) ==
  IF Len(g.nodes) = 0 THEN {g}
  ELSE {Genome_updateNodeBias(g, d[1], d[2]) :
          d \in UNION {{<<nodeIndex, newBias>> :
                          newBias \in NewValues(g.nodes[nodeIndex + 1].bias, config)} :
                       nodeIndex \in 0 .. (Len(g.nodes) - 1)}}

Mutator_mutateWeights(g, config) ==
  IF Len(g.connections) = 0 THEN {g}
  ELSE {Genome_updateConnectionWeight(g, d[1], d[2]) :
          d \in UNION {{<<connectionIndex, newWeight>> :
                          newWeight \in NewValues(g.connections[connectionIndex + 1].weight,
                                                  config)} :
                       connectionIndex \in 0 .. (Len(g.connections) - 1)}}

\* The loop of mutate, count passes to go: nothing, a bias or a weight.
RECURSIVE MutateValues(_, _, _)
MutateValues(g, config, count) ==
  IF count = 0 THEN {g}
  ELSE UNION {{h} \cup Mutator_mutateBiases(h, config) \cup Mutator_mutateWeights(h, config) :
                h \in MutateValues(g, config, count - 1)}

\* addNode that creates the hidden node and disables the chosen connection
\* without connecting the new node.
Mutator_addNode_Unwired(g, config) ==
  IF Len(g.connections) = 0 THEN {g}
  ELSE LET enabledConnections == {index \in 0 .. (Len(g.connections) - 1) :
                                    g.connections[index + 1].enabled}
       IN IF enabledConnections = {} THEN {g}
          ELSE {[Genome_createNode(g, "relu", "hidden").genome EXCEPT
                   !.connections[index + 1].enabled = FALSE] : index \in enabledConnections}

Mutator_addNode(g, config) ==
  IF Len(g.connections) = 0 THEN {g}
  ELSE LET enabledConnections == {index \in 0 .. (Len(g.connections) - 1) :
                                    g.connections[index + 1].enabled}
       IN IF enabledConnections = {} THEN {g}
          ELSE {Genome_splitConnection(g, index).genome : index \in enabledConnections}

\* addConnection that proposes the drawn source index as it is.
AddConnectionProposals_NoRemap(g) ==
  LET sourceCount == g.info.inputs + g.info.hidden
      targetCount == g.info.hidden + g.info.outputs
  IN {<<d[1], d[2] + g.info.inputs, d[3]>> :
        d \in (0 .. (sourceCount - 1)) \X (0 .. (targetCount - 1)) \X RangeDraws}

\* The <<sourceIndex, targetIndex, weight>> addConnection can propose, over
\* the two randomInt draws and the randomRange draw.
AddConnectionProposals(g) ==
  LET sourceCount == g.info.inputs + g.info.hidden
      targetCount == g.info.hidden + g.info.outputs
      Remapped(sourceIndex) ==
        IF sourceIndex >= g.info.inputs /\ sourceIndex < g.info.inputs + g.info.outputs
        THEN sourceIndex + g.info.outputs
        ELSE sourceIndex
  IN {<<Remapped(d[1]), d[2] + g.info.inputs, d[3]>> :
        d \in (0 .. (sourceCount - 1)) \X (0 .. (targetCount - 1)) \X RangeDraws}

\* addConnection that records the proposed connection whatever the genome's
\* DAG answers.
Mutator_addConnection_Forced(g, config) ==
  {Genome_createConnection_Forced(g, p[1], p[2], p[3]).genome : p \in AddConnectionProposals(g)}

Mutator_addConnection(g, config) ==
  {Genome_createConnection(g, p[1], p[2], p[3]).genome : p \in AddConnectionProposals(g)}

\* mutate whose add-node step does not look at config.maxHiddenNodes.
MutatedGenomes_NoLimit(g, config) ==
  UNION {UNION {{withNode} \cup Mutator_addConnection(withNode, config) :
                  withNode \in {withValues} \cup Mutator_addNode(withValues, config)} :
           withValues \in MutateValues(g, config, config.mutationCount)}

\* The genomes mutate can hold when it comes to its add-connection step.
BeforeAddConnection(g, config) ==
  UNION {{withValues} \cup (IF config.maxHiddenNodes > withValues.info.hidden
                            THEN Mutator_addNode(withValues, config)
                            ELSE {}) :
           withValues \in MutateValues(g, config, config.mutationCount)}

\* The genomes mutate can leave in the object it works on.
MutatedGenomes(g, config) ==
  UNION {{withNode} \cup Mutator_addConnection(withNode, config) :
           withNode \in BeforeAddConnection(g, config)}

\* genome.clone() on the object at ref: a new object in the heap.
Genome_cloneObject(heap, ref) ==
  [heap |-> Append(heap, Genome_clone(heap[ref])), ret |-> Len(heap) + 1]

\* mutate that works on its argument object and returns it.
Mutator_mutate_InPlace(heap, ref, config) ==
  {[heap |-> [heap EXCEPT ![ref] = mutated], ret |-> ref] :
     mutated \in MutatedGenomes(heap[ref], config)}

\* mutate(genome, config): the heaps it can leave and the reference returned.
Mutator_mutate(heap, ref, config) ==
  LET cloned == Genome_cloneObject(heap, ref)
  IN {[heap |-> [cloned.heap EXCEPT ![cloned.ret] = mutated], ret |-> cloned.ret] :
        mutated \in MutatedGenomes(cloned.heap[cloned.ret], config)}

(***************************************************************************)
(* Specification of a DAG driven through its public methods.               *)
(***************************************************************************)
NoGenome == [nodes |-> <<>>, connections |-> <<>>, dag |-> <<>>,
             info |-> [inputs |-> 0, outputs |-> 0, hidden |-> 0]]

\* last.op names the last call made; depthsCurrent tells that computeDepth
\* ran after the last call that may have changed the nodes or edges.
NoCall == [op |-> "new"]

Init ==
  /\ impl \in {1, 2}
  /\ dag = <<>>
  /\ depthsCurrent = FALSE
  /\ genome = NoGenome
  /\ net = NoNetwork
  /\ last = NoCall
  /\ ret = "void"

\* dag.createNode() while the DAG has fewer than limit nodes.
CreateNode(limit) ==
  /\ Len(dag) < limit
  /\ dag' = IF impl = 1 THEN DAG_createNode(dag) ELSE DAG2_createNode(dag)
  /\ depthsCurrent' = FALSE
  /\ last' = [op |-> "createNode"]
  /\ ret' = "void"
  /\ UNCHANGED <<impl, genome, net>>

\* dag.createConnection(from, to).
CreateConnectionCall(from, to) ==
  LET r == IF impl = 1 THEN DAG_createConnection(dag, from, to)
           ELSE DAG2_createConnection(dag, from, to)
  IN /\ dag' = r.dag
     /\ depthsCurrent' = FALSE
     /\ last' = [op |-> "createConnection"]
     /\ ret' = r.ret
     /\ UNCHANGED <<impl, genome, net>>

\* dag.createConnection for one of the argument pairs.
CreateConnection(pairs) == \E p \in pairs : CreateConnectionCall(p[1], p[2])

\* dag.removeConnection(from, to).
RemoveConnectionCall(from, to) ==
  LET r == IF impl = 1 THEN [dag |-> DAG_removeConnection(dag, from, to), ret |-> "void"]
           ELSE DAG2_removeConnection(dag, from, to)
  IN /\ dag' = r.dag
     /\ depthsCurrent' = FALSE
     /\ last' = [op |-> "removeConnection"]
     /\ ret' = r.ret
     /\ UNCHANGED <<impl, genome, net>>

\* dag.removeConnection for one of the argument pairs.
RemoveConnection(pairs) == \E p \in pairs : RemoveConnectionCall(p[1], p[2])

Next ==
  \/ CreateNode(MaxNodes)
  \/ CreateConnection(NodeArgs \X NodeArgs)
  \/ RemoveConnection(NodeArgs \X NodeArgs)

Spec == Init /\ [][Next]_vars

(***************************************************************************)
(* Specification of a DAG whose depths are computed and read.  Of the      *)
(* calls that change the edges only the accepted ones are steps here: a    *)
(* rejected createConnection and a removeConnection of a missing edge      *)
(* leave the DAG as it was.                                                *)
(***************************************************************************)
RECURSIVE SumIncoming(_, _)
SumIncoming(d, n) == IF n = 0 THEN 0 ELSE d[n].incoming + SumIncoming(d, n - 1)

EdgeCount(d) == SumIncoming(d, Len(d))

Edges(d) == {p \in (0 .. (Len(d) - 1)) \X (0 .. (Len(d) - 1)) : includes(d[p[1] + 1].out, p[2])}

NonEdges(d) == ((0 .. (Len(d) - 1)) \X (0 .. (Len(d) - 1))) \ Edges(d)

ComputeDepth ==
  /\ dag' = IF impl = 1 THEN DAG_computeDepth(dag) ELSE DAG2_computeDepth(dag)
  /\ \A i \in 1 .. Len(dag) : dag'[i].depth <= MaxDepth
  /\ depthsCurrent' = TRUE
  /\ last' = [op |-> "computeDepth"]
  /\ ret' = "void"
  /\ UNCHANGED <<impl, genome, net>>

GetTopologicalOrder ==
  /\ ret' = IF impl = 1 THEN DAG_getTopologicalOrder(dag) ELSE DAG2_getOrder(dag)
  /\ last' = [op |-> "getTopologicalOrder"]
  /\ UNCHANGED <<impl, dag, depthsCurrent, genome, net>>

NextDepth ==
  \/ CreateNode(MaxDepthNodes)
  \/ (EdgeCount(dag) < MaxEdges /\ CreateConnection(NonEdges(dag)) /\ ret' = "true")
  \/ (RemoveConnection(Edges(dag)) /\ dag' # dag)
  \/ ComputeDepth
  \/ GetTopologicalOrder

SpecDepth == Init /\ [][NextDepth]_vars

(***************************************************************************)
(* Specification of computeDepth run statement by statement (dag.ts        *)
(* 140-169 and 270-307).  While a call runs, last holds its frame: pc is   *)
(* the loop the call is in, i the index of the first for loop, nodeIdx the *)
(* popped node and k the position in its out list, incoming and startNodes *)
(* the two local arrays.  pushed and popped are history: the indices       *)
(* pushed onto and popped from startNodes so far, in order.  The code is   *)
(* synchronous, so no other call is made while a frame is running.         *)
(***************************************************************************)
Running == last.op = "computeDepth" /\ last.pc # "done"

\* A call is made only when the depths it will leave stay within MaxDepth.
CallComputeDepth ==
  /\ ~Running
  /\ \A i \in 1 .. Len(dag) : DAG_computeDepth(dag)[i].depth <= MaxDepth
  /\ last' = [op |-> "computeDepth", pc |-> "seed", i |-> 0, nodeIdx |-> 0, k |-> 1,
              incoming |-> [i \in 1 .. Len(dag) |-> dag[i].incoming],
              startNodes |-> <<>>, pushed |-> <<>>, popped |-> <<>>,
              before |-> dag]
  /\ ret' = "void"
  /\ UNCHANGED <<impl, dag, depthsCurrent, genome, net>>

\* One pass of the first for loop; the first implementation tests the copy
\* incoming[i], the second the node's own count.
SeedStep ==
  /\ Running /\ last.pc = "seed"
  /\ IF last.i < Len(dag)
     THEN LET count == IF impl = 1 THEN last.incoming[last.i + 1]
                       ELSE dag[last.i + 1].incoming
          IN IF count = 0
             THEN /\ dag' = [dag EXCEPT ![last.i + 1].depth = 0]
                  /\ last' = [last EXCEPT !.startNodes = Append(@, last.i),
                                          !.pushed = Append(@, last.i),
                                          !.i = @ + 1]
             ELSE /\ dag' = dag
                  /\ last' = [last EXCEPT !.i = @ + 1]
     ELSE /\ dag' = dag
          /\ last' = [last EXCEPT !.pc = "loop"]
  /\ UNCHANGED <<impl, depthsCurrent, genome, net, ret>>

\* The test of the while loop and startNodes.pop().
PopStep ==
  /\ Running /\ last.pc = "loop"
  /\ IF Len(last.startNodes) > 0
     THEN /\ last' = [last EXCEPT !.nodeIdx = last.startNodes[Len(last.startNodes)],
                                  !.startNodes = SubSeq(@, 1, Len(@) - 1),
                                  !.popped = Append(@, last.startNodes[Len(last.startNodes)]),
                                  !.k = 1,
                                  !.pc = "children"]
          /\ depthsCurrent' = depthsCurrent
     ELSE /\ last' = [last EXCEPT !.pc = "done"]
          /\ depthsCurrent' = TRUE
  /\ UNCHANGED <<impl, dag, genome, net, ret>>

\* One pass of the for loop over the popped node's children, pushing every
\* child whatever its remaining incoming count.
ChildStep_PushEveryChild ==
  /\ Running /\ last.pc = "children"
  /\ IF last.k <= Len(dag[last.nodeIdx + 1].out)
     THEN LET childIdx == dag[last.nodeIdx + 1].out[last.k]
              newDepth == Max(dag[childIdx + 1].depth, dag[last.nodeIdx + 1].depth + 1)
          IN /\ dag' = [dag EXCEPT ![childIdx + 1].depth = newDepth]
             /\ last' = [last EXCEPT !.incoming[childIdx + 1] = @ - 1,
                                     !.startNodes = Append(@, childIdx),
                                     !.pushed = Append(@, childIdx),
                                     !.k = @ + 1]
     ELSE /\ dag' = dag
          /\ last' = [last EXCEPT !.pc = "loop"]
  /\ UNCHANGED <<impl, depthsCurrent, genome, net, ret>>

\* One pass of the for loop over the popped node's children.
ChildStep ==
  /\ Running /\ last.pc = "children"
  /\ IF last.k <= Len(dag[last.nodeIdx + 1].out)
     THEN LET childIdx == dag[last.nodeIdx + 1].out[last.k]
              newDepth == Max(dag[childIdx + 1].depth, dag[last.nodeIdx + 1].depth + 1)
              push == last.incoming[childIdx + 1] - 1 = 0
          IN /\ dag' = [dag EXCEPT ![childIdx + 1].depth = newDepth]
             /\ last' = [last EXCEPT !.incoming[childIdx + 1] = @ - 1,
                                     !.startNodes = IF push THEN Append(@, childIdx) ELSE @,
                                     !.pushed = IF push THEN Append(@, childIdx) ELSE @,
                                     !.k = @ + 1]
     ELSE /\ dag' = dag
          /\ last' = [last EXCEPT !.pc = "loop"]
  /\ UNCHANGED <<impl, depthsCurrent, genome, net, ret>>

RunStep == SeedStep \/ PopStep \/ ChildStep

NextDepthSteps ==
  \/ (~Running /\ CreateNode(MaxDepthNodes))
  \/ (~Running /\ EdgeCount(dag) < MaxEdges /\ CreateConnection(NonEdges(dag)) /\ ret' = "true")
  \/ (~Running /\ RemoveConnection(Edges(dag)) /\ dag' # dag)
  \/ CallComputeDepth
  \/ SeedStep
  \/ PopStep
  \/ ChildStep

\* A call that has started runs on: nothing else is scheduled in between.
SpecDepthSteps == Init /\ [][NextDepthSteps]_vars /\ WF_vars(RunStep)

\* The statements together compute what DAG_computeDepth computes at once.
StepsAgree ==
  (last.op = "computeDepth" /\ last.pc = "done") =>
    /\ dag = (IF impl = 1 THEN DAG_computeDepth(last.before) ELSE DAG2_computeDepth(last.before))
    /\ last.popped = DepthRun(last.before).popped

(***************************************************************************)
(* Specification of a Genome driven through its public methods.            *)
(***************************************************************************)
InputCounts == {1, 2}
OutputCounts == {1}
ActivationArgs == {"sigmoid"}
NodeTypeArgs == {"hidden", "input"}
Weights == {2}
\* Index arguments: one negative value, every index in use, one past the end.
GenomeNodeArgs(g) == -1 .. Len(g.nodes)
ConnectionArgs(g) == -1 .. Len(g.connections)

WithinBounds(g) == Len(g.nodes) + Len(g.connections) <= MaxGenomeSize

InitGenome ==
  /\ impl = 1
  /\ dag = <<>>
  /\ depthsCurrent = FALSE
  /\ \E inputs \in InputCounts, outputs \in OutputCounts :
       genome = Genome_new(inputs, outputs)
  /\ net = NoNetwork
  /\ last = NoCall
  /\ ret = "void"

\* genome.createNode(activation, type).
GCreateNodeCall(activation, type) ==
  LET r == Genome_createNode(genome, activation, type)
  IN /\ WithinBounds(r.genome)
     /\ genome' = r.genome
     /\ last' = [op |-> "createNode"]
     /\ ret' = "index"
     /\ UNCHANGED <<impl, dag, depthsCurrent, net>>

GCreateNode == \E activation \in ActivationArgs, type \in NodeTypeArgs :
                 GCreateNodeCall(activation, type)

\* genome.createConnection(from, to, weight).
GCreateConnectionCall(from, to, weight) ==
  LET r == Genome_createConnection(genome, from, to, weight)
  IN /\ WithinBounds(r.genome)
     /\ genome' = r.genome
     /\ last' = [op |-> "createConnection"]
     /\ ret' = r.ret
     /\ UNCHANGED <<impl, dag, depthsCurrent, net>>

GCreateConnection == \E from \in GenomeNodeArgs(genome), to \in GenomeNodeArgs(genome), weight \in Weights :
                       GCreateConnectionCall(from, to, weight)

\* genome.splitConnection(connectionIndex).
GSplitConnectionCall(connectionIndex) ==
  LET r == Genome_splitConnection(genome, connectionIndex)
  IN /\ WithinBounds(r.genome)
     /\ genome' = r.genome
     /\ last' = [op |-> "splitConnection"]
     /\ ret' = r.ret
     /\ UNCHANGED <<impl, dag, depthsCurrent, net>>

GSplitConnection == \E connectionIndex \in ConnectionArgs(genome) : GSplitConnectionCall(connectionIndex)

\* genome.removeConnection(connectionIndex).
GRemoveConnectionCall(connectionIndex) ==
  /\ genome' = Genome_removeConnection(genome, connectionIndex)
  /\ last' = [op |-> "removeConnection"]
  /\ ret' = "void"
  /\ UNCHANGED <<impl, dag, depthsCurrent, net>>

GRemoveConnection == \E connectionIndex \in ConnectionArgs(genome) : GRemoveConnectionCall(connectionIndex)

\* genome = genome.clone(): the run goes on with the copy.
GClone ==
  /\ genome' = Genome_clone(genome)
  /\ last' = [op |-> "clone"]
  /\ ret' = "genome"
  /\ UNCHANGED <<impl, dag, depthsCurrent, net>>

NextGenome ==
  \/ GCreateNode
  \/ GCreateConnection
  \/ GSplitConnection
  \/ GRemoveConnection
  \/ GClone

SpecGenome == InitGenome /\ [][NextGenome]_vars

\* The same genome run kept to smaller genomes, for the properties that are
\* stated of every call in every state.
StaysSmall == Len(genome'.nodes) + Len(genome'.connections) <= MaxSmallGenomeSize

NextSmallGenome ==
  \/ GCreateNode /\ StaysSmall
  \/ GCreateConnection /\ StaysSmall
  \/ GSplitConnection /\ StaysSmall
  \/ GRemoveConnection
  \/ GClone

SpecSmallGenome == InitGenome /\ [][NextSmallGenome]_vars

(***************************************************************************)
(* Specification of a genome that is edited, compiled by generate and run  *)
(* by execute.  With impl = 1 the genome is the Genome of src/src/genome.ts*)
(* and the generator the one of src/src/network-generator.ts; with         *)
(* impl = 2 they are the second Genome and the generator of                *)
(* src/unnamed/part_004, whose networks are those of src/src/network.ts.   *)
(***************************************************************************)
NetInputCounts == {1}
NetOutputCounts == {1, 2}
NetActivations == {"relu"}
NetWeights == {2}
InputValues == {1}

\* The connections of the genome that generate compiles: the enabled ones
\* (every record of the second Genome, which removes instead of disabling).
IsCompiled(c) == impl = 2 \/ c.enabled

\* The size of a genome: its nodes and the connections generate compiles.
GenomeSize(g) == Len(g.nodes) + Len(SelectSeq(g.connections, IsCompiled))

\* The input vectors tried on a network: every length from 0 to one more
\* than the network's inputs.
RECURSIVE VectorsOfLength(_)
VectorsOfLength(n) ==
  IF n = 0 THEN {<<>>}
  ELSE {Append(v, x) : v \in VectorsOfLength(n - 1), x \in InputValues}

InputVectors(n) == UNION {VectorsOfLength(k) : k \in 0 .. (n.info.inputs + 1)}

InitNetwork ==
  /\ impl \in {1, 2}
  /\ dag = <<>>
  /\ depthsCurrent = FALSE
  /\ \E inputs \in NetInputCounts, outputs \in NetOutputCounts :
       genome = IF impl = 1 THEN Genome_new(inputs, outputs) ELSE Genome2_new(inputs, outputs)
  /\ net = NoNetwork
  /\ last = NoCall
  /\ ret = "void"

\* The genome is edited while no compiled network is held: an edit drops the
\* network compiled before.
\* genome.createNode(activation): a hidden node.
NCreateNode ==
  \E activation \in NetActivations :
    /\ GenomeSize(genome) < MaxNetGenomeSize
    /\ genome' = IF impl = 1 THEN Genome_createNode(genome, activation, "hidden").genome
                 ELSE Genome2_createNode(genome, activation, TRUE).genome
    /\ net' = NoNetwork
    /\ last' = [op |-> "createNode"]
    /\ ret' = "index"
    /\ UNCHANGED <<impl, dag, depthsCurrent>>

\* genome.createConnection(from, to, weight) (tryCreateConnection in the
\* second implementation) between two nodes of the genome.
NCreateConnection ==
  \E from \in 0 .. (Len(genome.nodes) - 1), to \in 0 .. (Len(genome.nodes) - 1),
     weight \in NetWeights :
    LET r == IF impl = 1 THEN Genome_createConnection(genome, from, to, weight)
             ELSE Genome2_tryCreateConnection(genome, from, to, weight)
    IN /\ GenomeSize(genome) < MaxNetGenomeSize
       /\ genome' = r.genome
       /\ net' = NoNetwork
       /\ last' = [op |-> "createConnection"]
       /\ ret' = r.ret
       /\ UNCHANGED <<impl, dag, depthsCurrent>>

\* genome.splitConnection(index) of an existing connection.
NSplitConnection ==
  \E index \in 0 .. (Len(genome.connections) - 1) :
    /\ GenomeSize(genome) < MaxNetGenomeSize
    /\ genome' = IF impl = 1 THEN Genome_splitConnection(genome, index).genome
                 ELSE Genome2_splitConnection(genome, index)
    /\ net' = NoNetwork
    /\ last' = [op |-> "splitConnection"]
    /\ ret' = "void"
    /\ UNCHANGED <<impl, dag, depthsCurrent>>

\* genome.removeConnection(index) of an existing connection.
NRemoveConnection ==
  \E index \in 0 .. (Len(genome.connections) - 1) :
    /\ genome' = IF impl = 1 THEN Genome_removeConnection(genome, index)
                 ELSE Genome2_removeConnection(genome, index)
    /\ net' = NoNetwork
    /\ last' = [op |-> "removeConnection"]
    /\ ret' = "void"
    /\ UNCHANGED <<impl, dag, depthsCurrent>>

\* network = generator.generate(genome); a thrown error leaves no network.
\* last.order keeps the order generate worked with, last.again whether the
\* genome was already compiled as it is.
\* Depths left over from earlier calls grow without limit (see MaxDepth).
NGenerate ==
  LET r == IF impl = 1 THEN NetworkGenerator_generate(genome)
           ELSE NetworkGenerator2_generate(genome)
  IN /\ \A i \in 1 .. Len(r.genome.nodes) : r.genome.nodes[i].depth <= MaxDepth
     /\ genome' = r.genome
     /\ net' = r.net
     /\ last' = [op |-> "generate", order |-> r.order,
                 again |-> last.op \in {"generate", "execute"}]
     /\ ret' = r.ret
     /\ UNCHANGED <<impl, dag, depthsCurrent>>

\* network.execute(input) on the network compiled last (src/src/network.ts).
NExecute ==
  \E input \in InputVectors(net) :
    LET r == Network_execute(net, input)
    IN /\ impl = 2
       /\ last.op \in {"generate", "execute"}
       /\ ret # "Error"
       /\ net' = r.net
       /\ last' = [op |-> "execute", input |-> input, order |-> last.order]
       /\ ret' = r.ret
       /\ UNCHANGED <<impl, dag, depthsCurrent, genome>>

NextNetwork ==
  \/ NCreateNode
  \/ NCreateConnection
  \/ NSplitConnection
  \/ NRemoveConnection
  \/ NGenerate
  \/ NExecute

SpecNetwork == InitNetwork /\ [][NextNetwork]_vars

(***************************************************************************)
(* Specification of genomes built through the Genome methods and handed to *)
(* Mutator.mutate.  genome is the object the caller holds and passes; ret  *)
(* tells after mutate whether the returned reference is that same object,  *)
(* and what the returned object holds.                                     *)
(***************************************************************************)
MutationConfigs ==
  [mutationCount : {1}, maxHiddenNodes : {1, 2}, weightSmallRange : {2}]

\* The caller goes on building a genome that is below the size bound.
StillGrows == Len(genome.nodes) + Len(genome.connections) < MaxMutatedGenomeSize

\* child = mutator.mutate(genome, config), called on a genome the caller has
\* built or changed since the call before.
MMutate ==
  /\ last.op # "mutate"
  /\ \E config \in MutationConfigs :
       \E r \in Mutator_mutate(<<genome>>, 1, config) :
         /\ genome' = r.heap[1]
         /\ ret' = [same |-> r.ret = 1, genome |-> r.heap[r.ret]]
         /\ last' = [op |-> "mutate", config |-> config]
         /\ UNCHANGED <<impl, dag, depthsCurrent, net>>

NextMutate ==
  \/ GCreateNode /\ StillGrows
  \/ GCreateConnection /\ StillGrows
  \/ GSplitConnection /\ StillGrows
  \/ MMutate

SpecMutate == InitGenome /\ [][NextMutate]_vars

(***************************************************************************)
(* Specification of a line of descent: a genome made by the constructor    *)
(* gets input-to-output connections, and from then on the caller replaces  *)
(* it by the genome mutate returns, compiles it with the generator of      *)
(* src/src/network-generator.ts and executes the network.                  *)
(***************************************************************************)
LineageInputs == {1, 2}
LineageOutputs == {1, 2}
LineageWeights == {1}
LineageInputValues == {1}

LineageConfigs ==
  [mutationCount : {0, 1}, maxHiddenNodes : {2}, weightSmallRange : {2}]

\* The biases and weights the draws of the line of descent lead to.
LineageBiasValues == {-1, 0, 1}
LineageWeightValues == {-1, 1}

\* The genome stays within the size bound and its biases and weights among
\* the values taken.
ValuesWithin(g) ==
  /\ Len(g.nodes) + Len(SelectSeq(g.connections, LAMBDA c : c.enabled)) <= MaxLineageSize
  /\ \A i \in 1 .. Len(g.nodes) : g.nodes[i].bias \in LineageBiasValues
  /\ \A k \in 1 .. Len(g.connections) : g.connections[k].weight \in LineageWeightValues

\* Biases and weights are perturbed in the genomes without a hidden node
\* whose biases are those the constructor gave; later mutate calls draw no
\* perturbation.
StillPerturbed ==
  /\ genome.info.hidden = 0
  /\ \A i \in 1 .. Len(genome.nodes) : genome.nodes[i].bias = 0

InitLineage ==
  /\ impl = 1
  /\ dag = <<>>
  /\ depthsCurrent = FALSE
  /\ \E inputs \in LineageInputs, outputs \in LineageOutputs :
       genome = Genome_new(inputs, outputs)
  /\ net = NoNetwork
  /\ last = NoCall
  /\ ret = "void"

\* genome.createConnection(input, output, weight) before the first mutate.
LSeedConnection ==
  /\ last.op \in {"new", "seed"}
  /\ \E i \in 0 .. (genome.info.inputs - 1),
        o \in genome.info.inputs .. (genome.info.inputs + genome.info.outputs - 1),
        weight \in LineageWeights :
       LET r == Genome_createConnection(genome, i, o, weight)
       IN /\ genome' = r.genome
          /\ ret' = r.ret
          /\ last' = [op |-> "seed"]
          /\ UNCHANGED <<impl, dag, depthsCurrent, net>>

\* genome = mutator.mutate(genome, config): the caller goes on with the
\* genome returned.  Every genome of the line is compiled before it is
\* mutated again.
LMutate ==
  \E config \in LineageConfigs :
    /\ last.op \in {"new", "seed", "generate"}
    /\ config.mutationCount = 0 \/ StillPerturbed
    /\ \E r \in Mutator_mutate(<<genome>>, 1, config) :
      /\ ValuesWithin(r.heap[r.ret])
      /\ genome' = r.heap[r.ret]
      /\ net' = NoNetwork
      /\ ret' = "genome"
      /\ last' = [op |-> "mutate"]
      /\ UNCHANGED <<impl, dag, depthsCurrent>>

\* network = generator.generate(genome)
LGenerate ==
  LET r == NetworkGenerator_generate(genome)
  IN /\ last.op # "generate"
     /\ genome' = r.genome
     /\ net' = r.net
     /\ ret' = r.ret
     /\ last' = [op |-> "generate", order |-> r.order]
     /\ UNCHANGED <<impl, dag, depthsCurrent>>

\* network.execute(input) on the network compiled last.
LExecute ==
  /\ last.op = "generate"
  /\ ret = "network"
  /\ \E input \in UNION {[1 .. k -> LineageInputValues] : k \in 0 .. (net.info.inputs + 1)} :
       LET r == Network_execute(net, input)
       IN /\ net' = r.net
          /\ ret' = r.ret
          /\ last' = [op |-> "execute", input |-> input, order |-> last.order]
          /\ UNCHANGED <<impl, dag, depthsCurrent, genome>>

NextLineage ==
  \/ LSeedConnection
  \/ LMutate
  \/ LGenerate
  \/ LExecute

SpecLineage == InitLineage /\ [][NextLineage]_vars

(***************************************************************************)
(* Specification of a genome edited through every method that changes its  *)
(* connections, Mutator.mutate among them: the run goes on with the genome *)
(* mutate returned.  mutate is called with mutationCount 0, so that it     *)
(* clones and changes the structure (addNode, addConnection); the          *)
(* perturbation of biases and weights, which writes no endpoint of any     *)
(* record, is run in SpecMutate and SpecLineage.                           *)
(***************************************************************************)
EditConfigs == [mutationCount : {0}, maxHiddenNodes : {2}, weightSmallRange : {2}]

\* The weights kept of those addConnection draws.
EditedWeights == Weights \cup {1}

EditedValuesWithin(g) ==
  \A k \in 1 .. Len(g.connections) : g.connections[k].weight \in EditedWeights

\* genome = mutator.mutate(genome, config).
GMutate ==
  \E config \in EditConfigs :
    \E r \in Mutator_mutate(<<genome>>, 1, config) :
      /\ WithinBounds(r.heap[r.ret])
      /\ EditedValuesWithin(r.heap[r.ret])
      /\ genome' = r.heap[r.ret]
      /\ last' = [op |-> "mutate"]
      /\ ret' = "genome"
      /\ UNCHANGED <<impl, dag, depthsCurrent, net>>

\* Of the Genome calls only those that change the genome are steps here: a
\* refused call leaves every record and edge as it was.
NextEdited ==
  \/ GCreateNodeCall("sigmoid", "hidden")
  \/ (GCreateConnection /\ ret' = "true")
  \/ (GSplitConnection /\ ret' = "true")
  \/ (GRemoveConnection /\ genome' # genome)
  \/ GClone
  \/ GMutate

SpecEdited == InitGenome /\ [][NextEdited]_vars

(***************************************************************************)
(* SimpleRandomGenerator (src/src/random.ts).  _seed is a JavaScript       *)
(* number; the integers it takes here stay below 2^53 in absolute value,   *)
(* where the arithmetic of the code is exact.  A number is kept as a sign  *)
(* and two 16-bit limbs of its absolute value, hi * Limb + lo, so that     *)
(* Math.pow(2, 32) is Limb * Limb.                                         *)
(***************************************************************************)
Limb == 65536
Multiplier == 1664525
Increment == 1013904223

\* The number n, of absolute value below 2^31.
Number(n) == [neg |-> n < 0, hi |-> Abs(n) \div Limb, lo |-> Abs(n) % Limb]

\* (hi * Limb + lo) * Multiplier modulo 2^32.
TimesMultiplier(m) ==
  LET low == m.lo * (Multiplier % Limb)
      cross == m.hi * (Multiplier % Limb) + m.lo * (Multiplier \div Limb)
  IN [hi |-> ((low \div Limb) + cross) % Limb, lo |-> low % Limb]

\* m + Increment modulo 2^32.
PlusIncrement(m) ==
  LET lo == m.lo + (Increment % Limb)
  IN [hi |-> (m.hi + (Increment \div Limb) + (lo \div Limb)) % Limb, lo |-> lo % Limb]

\* m - Increment modulo 2^32.
MinusIncrement(m) ==
  LET lo == m.lo - (Increment % Limb)
      borrow == IF lo < 0 THEN 1 ELSE 0
  IN [hi |-> (m.hi - (Increment \div Limb) - borrow + Limb) % Limb, lo |-> (lo + Limb) % Limb]

\* (_seed * 1664525 + 1013904223) % Math.pow(2, 32): the remainder of
\* JavaScript has the sign of the dividend.
NextSeed(seed) ==
  IF ~seed.neg
  THEN [neg |-> FALSE] @@ PlusIncrement(TimesMultiplier(seed))
  ELSE IF seed.hi = 0 /\ seed.lo <= Increment \div Multiplier
       THEN Number(Increment - seed.lo * Multiplier)
       ELSE LET m == MinusIncrement(TimesMultiplier(seed))
            IN [neg |-> m.hi # 0 \/ m.lo # 0] @@ m

\* random(): the generator with its new _seed; the value returned is
\* _seed / 2^32, kept as the number _seed.
SimpleRandomGenerator_random(generator) ==
  LET seed == NextSeed(generator._seed)
  IN [generator |-> [generator EXCEPT !._seed = seed], ret |-> seed]

\* Math.floor(value / 2^32 * max) for 0 < max < 2^15.
FloorTimes(value, max) ==
  LET floorOfAbs == (value.hi * max + ((value.lo * max) \div Limb)) \div Limb
      exact == (value.lo * max) % Limb = 0 /\ (value.hi * max + ((value.lo * max) \div Limb)) % Limb = 0
  IN IF ~value.neg THEN floorOfAbs
     ELSE IF exact THEN 0 - floorOfAbs ELSE 0 - floorOfAbs - 1

SimpleRandomGenerator_randomInt(generator, max) ==
  LET r == SimpleRandomGenerator_random(generator)
  IN [generator |-> r.generator, ret |-> FloorTimes(r.ret, max)]

\* random() < numerator / 2^16
SimpleRandomGenerator_probability(generator, numerator) ==
  LET r == SimpleRandomGenerator_random(generator)
  IN [generator |-> r.generator, ret |-> r.ret.neg \/ r.ret.hi < numerator]

SimpleRandomGenerator_seed(generator, seed) == [generator EXCEPT !._seed = Number(seed)]

SimpleRandomGenerator_new(seed) == [_seed |-> Number(seed)]

(***************************************************************************)
(* Specification of a SimpleRandomGenerator: ret holds the generator and   *)
(* the value the last call returned.                                       *)
(***************************************************************************)
Seeds == {0, 1, 42, 609, 610, 65536, 2147483647, -1, -609, -610, -1000, -2147483647}
RandomIntArgs == {1, 2, 10}
\* probability(prob) for prob = numerator / 2^16.
ProbabilityArgs == {16384}

InitRandom ==
  /\ impl = 1
  /\ dag = <<>>
  /\ depthsCurrent = FALSE
  /\ genome = NoGenome
  /\ net = NoNetwork
  /\ last = [op |-> "new", calls |-> 0]
  /\ \E seed \in Seeds : ret = [generator |-> SimpleRandomGenerator_new(seed), value |-> "void"]

\* generator.random()
RRandom ==
  LET r == SimpleRandomGenerator_random(ret.generator)
  IN /\ last.calls < MaxCalls
     /\ ret' = [generator |-> r.generator, value |-> r.ret]
     /\ last' = [op |-> "random", calls |-> last.calls + 1]
     /\ UNCHANGED <<impl, dag, depthsCurrent, genome, net>>

\* generator.randomInt(max)
RRandomInt ==
  \E max \in RandomIntArgs :
    LET r == SimpleRandomGenerator_randomInt(ret.generator, max)
    IN /\ last.calls < MaxCalls
       /\ ret' = [generator |-> r.generator, value |-> r.ret]
       /\ last' = [op |-> "randomInt", calls |-> last.calls + 1, max |-> max]
       /\ UNCHANGED <<impl, dag, depthsCurrent, genome, net>>

\* generator.probability(prob)
RProbability ==
  \E numerator \in ProbabilityArgs :
    LET r == SimpleRandomGenerator_probability(ret.generator, numerator)
    IN /\ last.calls < MaxCalls
       /\ ret' = [generator |-> r.generator, value |-> r.ret]
       /\ last' = [op |-> "probability", calls |-> last.calls + 1]
       /\ UNCHANGED <<impl, dag, depthsCurrent, genome, net>>

\* generator.seed(seed)
RSeed ==
  \E seed \in Seeds :
    /\ last.calls < MaxCalls
    /\ ret' = [generator |-> SimpleRandomGenerator_seed(ret.generator, seed), value |-> "void"]
    /\ last' = [op |-> "seed", calls |-> last.calls + 1]
    /\ UNCHANGED <<impl, dag, depthsCurrent, genome, net>>

NextRandom ==
  \/ RRandom
  \/ RRandomInt
  \/ RProbability
  \/ RSeed

SpecRandom == InitRandom /\ [][NextRandom]_vars

(***************************************************************************)
(* EvolutionEngine (src/unnamed/part_004).  A genome is kept as the        *)
(* fitness the fitness function gives it.  The mutator draws from the      *)
(* random generator it was made with and returns a genome that depends on  *)
(* its parent and on what it drew: the child has the parent's fitness or   *)
(* the other one, by the value of one draw.  The draws of Math.random are  *)
(* choices, and evolve is the set of the results it can end with.          *)
(***************************************************************************)
FitnessValues == {0, 1}

\* The random generator of random.ts that draws from Math.random.
StandardRandomGenerator == [standard |-> TRUE]

\* random.randomInt(max): the generator after the draw and the value drawn.
IRandomGenerator_randomInt(random, max) ==
  IF random = StandardRandomGenerator
  THEN {[generator |-> random, ret |-> value] : value \in 0 .. (max - 1)}
  ELSE {SimpleRandomGenerator_randomInt(random, max)}

\* mutator.mutate(parent, mutationConfig): the child and the mutator's
\* generator after the call.
MutatedChild(parent, random) ==
  {[child |-> (parent + drawn.ret) % Cardinality(FitnessValues), random |-> drawn.generator] :
     drawn \in IRandomGenerator_randomInt(random, Cardinality(FitnessValues))}

\* The loop over selectedParents from the k-th parent on.
RECURSIVE MutatedChildren(_, _, _)
MutatedChildren(selectedParents, k, random) ==
  IF k > Len(selectedParents) THEN {[children |-> <<>>, random |-> random]}
  ELSE UNION {{[children |-> <<first.child>> \o rest.children, random |-> rest.random] :
                 rest \in MutatedChildren(selectedParents, k + 1, first.random)} :
              first \in MutatedChild(selectedParents[k], random)}
\* bestFitness = -Infinity: below every fitness.
MinusInfinity == -1
TournamentSize == 3

\* A tournament: the first pick, then every later pick that has a greater
\* fitness than the best so far.
RECURSIVE Tournament(_, _, _, _)
Tournament(fitnessScores, picks, j, bestIndex) ==
  IF j > Len(picks) THEN bestIndex
  ELSE Tournament(fitnessScores, picks, j + 1,
                  IF fitnessScores[picks[j] + 1] > fitnessScores[bestIndex + 1]
                  THEN picks[j] ELSE bestIndex)

\* select(population, fitnessScores, count): count tournaments, none when
\* count is not positive.
TournamentSelection_select(population, fitnessScores, count) ==
  LET winners == {Tournament(fitnessScores, picks, 2, picks[1]) :
                    picks \in [1 .. TournamentSize -> 0 .. (Len(population) - 1)]}
  IN IF count <= 0 THEN {<<>>}
     ELSE {[i \in 1 .. count |-> population[w[i] + 1]] : w \in [1 .. count -> winners]}

\* The indices sorted by fitnessScores[b] - fitnessScores[a], a stable sort.
RECURSIVE InsertByFitness(_, _, _)
InsertByFitness(sorted, x, fitnessScores) ==
  IF Len(sorted) = 0 THEN <<x>>
  ELSE IF fitnessScores[sorted[Len(sorted)] + 1] >= fitnessScores[x + 1]
       THEN Append(sorted, x)
       ELSE Append(InsertByFitness(SubSeq(sorted, 1, Len(sorted) - 1), x, fitnessScores),
                   sorted[Len(sorted)])

RECURSIVE SortedIndices(_, _)
SortedIndices(fitnessScores, n) ==
  IF n = 0 THEN <<>>
  ELSE InsertByFitness(SortedIndices(fitnessScores, n - 1), n - 1, fitnessScores)

\* The elite loop over the indices as they stand, the sort left out.
Elite_Unsorted(population, fitnessScores, eliteCount) ==
  LET kept == IF eliteCount < Len(population) THEN Max(eliteCount, 0) ELSE Len(population)
  IN [i \in 1 .. kept |-> population[i]]

\* The elite loop: i < eliteCount && i < population.length.
Elite(population, fitnessScores, eliteCount) ==
  LET sortedIndices == SortedIndices(fitnessScores, Len(population))
      kept == IF eliteCount < Len(population) THEN Max(eliteCount, 0) ELSE Len(population)
  IN [i \in 1 .. kept |-> population[sortedIndices[i] + 1]]

\* The populations one generation can build, each with the mutator's
\* generator after it: the elite, then one mutated child per selected parent.
NewPopulations(population, fitnessScores, evolutionConfig, random) ==
  LET remainingCount == evolutionConfig.populationSize - evolutionConfig.eliteCount
  IN {[population |-> Elite(population, fitnessScores, evolutionConfig.eliteCount)
                        \o mutated.children,
       random |-> mutated.random] :
        mutated \in UNION {MutatedChildren(selectedParents, 1, random) :
                             selectedParents \in TournamentSelection_select(
                                                   population, fitnessScores, remainingCount)}}

RECURSIVE BestOf(_, _, _)
BestOf(fitnessScores, i, bestFitness) ==
  IF i > Len(fitnessScores) THEN bestFitness
  ELSE BestOf(fitnessScores, i + 1, Max(fitnessScores[i], bestFitness))

\* No improvement over the last 10 generations.
shouldTerminateEarly(fitnessHistory, generation) ==
  IF generation < 10 THEN FALSE
  ELSE LET recentHistory == SubSeq(fitnessHistory, Len(fitnessHistory) - 9, Len(fitnessHistory))
       IN \A a, b \in 1 .. 10 : recentHistory[a] = recentHistory[b]

EvolutionResult(bestFitness, generation, population, fitnessHistory) ==
  [bestFitness |-> bestFitness, generation |-> generation, population |-> population,
   fitnessHistory |-> fitnessHistory]

\* The loop of evolve from the head of the pass `generation`.
RECURSIVE EvolveFrom(_, _, _, _, _, _)
EvolveFrom(population, generation, bestFitness, fitnessHistory, evolutionConfig, random) ==
  IF generation >= evolutionConfig.maxGenerations
  THEN {EvolutionResult(bestFitness, Len(fitnessHistory), population, fitnessHistory)}
  ELSE LET fitnessScores == population
           best == BestOf(fitnessScores, 1, bestFitness)
           history == Append(fitnessHistory, best)
       IN IF evolutionConfig.fitnessThreshold # MinusInfinity
             /\ best >= evolutionConfig.fitnessThreshold
          THEN {EvolutionResult(best, generation + 1, population, history)}
          ELSE UNION {IF shouldTerminateEarly(history, generation)
                      THEN {EvolutionResult(best, Len(history), new.population, history)}
                      ELSE EvolveFrom(new.population, generation + 1, best, history,
                                      evolutionConfig, new.random) :
                        new \in NewPopulations(population, fitnessScores, evolutionConfig,
                                               random)}

\* evolve of an engine whose mutator draws from random.
EvolutionEngine_evolve(initialPopulation, evolutionConfig, random) ==
  EvolveFrom(initialPopulation, 0, MinusInfinity, <<>>, evolutionConfig, random)

(***************************************************************************)
(* Specification of one evolve call on an engine whose mutator draws from  *)
(* Math.random: last holds the arguments, ret the result.                  *)
(* fitnessThreshold MinusInfinity stands for a configuration without       *)
(* threshold.                                                              *)
(***************************************************************************)
EvolutionConfigs ==
  [populationSize : 1 .. MaxPopulation, eliteCount : 0 .. MaxPopulation,
   maxGenerations : 0 .. MaxGenerations, fitnessThreshold : {MinusInfinity, 1}]

InitialPopulations == UNION {[1 .. n -> FitnessValues] : n \in 1 .. MaxPopulation}

InitEvolve ==
  /\ impl = 1
  /\ dag = <<>>
  /\ depthsCurrent = FALSE
  /\ genome = NoGenome
  /\ net = NoNetwork
  /\ \E initialPopulation \in InitialPopulations, evolutionConfig \in EvolutionConfigs :
       last = [op |-> "new", initialPopulation |-> initialPopulation,
               evolutionConfig |-> evolutionConfig]
  /\ ret = "void"

\* result = engine.evolve(initialPopulation, fitnessFunction, evolutionConfig,
\* mutationConfig)
EEvolve ==
  /\ last.op = "new"
  /\ \E r \in EvolutionEngine_evolve(last.initialPopulation, last.evolutionConfig,
                                      StandardRandomGenerator) :
       /\ ret' = r
       /\ last' = [last EXCEPT !.op = "evolve"]
       /\ UNCHANGED <<impl, dag, depthsCurrent, genome, net>>

NextEvolve == EEvolve

SpecEvolve == InitEvolve /\ [][NextEvolve]_vars

(***************************************************************************)
(* Specification of evolve run pass by pass.  While the call runs, last    *)
(* holds the locals of evolve (population, generation, bestFitness,        *)
(* fitnessHistory) with its arguments, and previous, the population the    *)
(* last pass started from; ret is the result once evolve has returned.     *)
(***************************************************************************)
InitGenerations ==
  /\ impl = 1
  /\ dag = <<>>
  /\ depthsCurrent = FALSE
  /\ genome = NoGenome
  /\ net = NoNetwork
  /\ \E initialPopulation \in InitialPopulations, evolutionConfig \in EvolutionConfigs :
       last = [op |-> "new", initialPopulation |-> initialPopulation,
               evolutionConfig |-> evolutionConfig,
               population |-> initialPopulation, generation |-> 0,
               bestFitness |-> MinusInfinity, fitnessHistory |-> <<>>,
               previous |-> <<>>, broken |-> FALSE]
  /\ ret = "void"

\* bestFitness after the pass over fitnessScores at the head of a pass.
BestNow == BestOf(last.population, 1, last.bestFitness)

\* The test of the for loop and the break of the pass before.
InLoop ==
  /\ last.op \in {"new", "pass"}
  /\ ~last.broken
  /\ last.generation < last.evolutionConfig.maxGenerations

ThresholdMet ==
  /\ last.evolutionConfig.fitnessThreshold # MinusInfinity
  /\ BestNow >= last.evolutionConfig.fitnessThreshold

\* One pass of the loop that builds the next population.
EPass ==
  /\ InLoop
  /\ ~ThresholdMet
  /\ \E new \in NewPopulations(last.population, last.population, last.evolutionConfig,
                               StandardRandomGenerator) :
       last' = [last EXCEPT !.op = "pass",
                            !.previous = last.population,
                            !.population = new.population,
                            !.bestFitness = BestNow,
                            !.fitnessHistory = Append(@, BestNow),
                            !.generation = @ + 1,
                            !.broken = shouldTerminateEarly(Append(last.fitnessHistory, BestNow),
                                                            last.generation)]
  /\ UNCHANGED <<impl, dag, depthsCurrent, genome, net, ret>>

\* The return inside the loop, when the threshold is met.
EReturnAtThreshold ==
  /\ InLoop
  /\ ThresholdMet
  /\ ret' = EvolutionResult(BestNow, last.generation + 1, last.population,
                            Append(last.fitnessHistory, BestNow))
  /\ last' = [last EXCEPT !.op = "return"]
  /\ UNCHANGED <<impl, dag, depthsCurrent, genome, net>>

\* The return after the loop.
EReturnAfterLoop ==
  /\ last.op \in {"new", "pass"}
  /\ ~InLoop
  /\ ret' = EvolutionResult(last.bestFitness, Len(last.fitnessHistory), last.population,
                            last.fitnessHistory)
  /\ last' = [last EXCEPT !.op = "return"]
  /\ UNCHANGED <<impl, dag, depthsCurrent, genome, net>>

NextGenerations ==
  \/ EPass
  \/ EReturnAtThreshold
  \/ EReturnAfterLoop

SpecGenerations == InitGenerations /\ [][NextGenerations]_vars

\* The passes together return what EvolutionEngine_evolve returns.
PassesAgree ==
  (last.op = "return") =>
    ret \in EvolutionEngine_evolve(last.initialPopulation, last.evolutionConfig,
                                   StandardRandomGenerator)

(***************************************************************************)
(* NEAT (src/src/index.ts): the random generator made from options.seed,   *)
(* the mutator made with it and the engine with TournamentSelection.       *)
(***************************************************************************)
\* new NEAT({ seed })
NEAT_new(seed) == [random |-> SimpleRandomGenerator_new(seed)]

\* The generator after n draws whose values do not enter a genome's fitness.
RECURSIVE AfterDraws(_, _)
AfterDraws(random, n) ==
  IF n = 0 \/ random = StandardRandomGenerator THEN random
  ELSE AfterDraws(SimpleRandomGenerator_random(random).generator, n - 1)

\* createInitialPopulation from genome i on: the connection count is drawn,
\* each connection takes three draws, and the genome is mutated.
RECURSIVE InitialGenomes(_, _, _, _)
InitialGenomes(random, i, populationSize, pairs) ==
  IF i >= populationSize THEN {[population |-> <<>>, random |-> random]}
  ELSE UNION {UNION {{[population |-> <<mutated.child>> \o rest.population,
                       random |-> rest.random] :
                        rest \in InitialGenomes(mutated.random, i + 1, populationSize, pairs)} :
                     mutated \in MutatedChild(0, AfterDraws(connectionCount.generator,
                                                           3 * (connectionCount.ret + 1)))} :
              connectionCount \in IRandomGenerator_randomInt(random, pairs)}

\* createInitialPopulation(inputs, outputs, populationSize) with
\* inputs * outputs = pairs.
NEAT_createInitialPopulation(neat, pairs, populationSize) ==
  InitialGenomes(neat.random, 0, populationSize, pairs)

\* run(inputs, outputs, fitnessFunction, evolutionConfig): the initial
\* population and the result of evolve.
NEAT_run(neat, pairs, evolutionConfig) ==
  UNION {{[initialPopulation |-> initial.population, result |-> result] :
            result \in EvolutionEngine_evolve(initial.population, evolutionConfig,
                                              initial.random)} :
         initial \in NEAT_createInitialPopulation(neat, pairs, evolutionConfig.populationSize)}

(***************************************************************************)
(* Specification of two NEAT instances made with the same seed and run     *)
(* with the same fitness function and configuration: last holds the seed   *)
(* and the configuration, ret the two outcomes.                            *)
(***************************************************************************)
NeatSeeds == {0, 1, 42, 12345}
\* inputs * outputs of the genomes created.
InputOutputPairs == {2}
SeededConfigs ==
  [populationSize : 1 .. MaxPopulation, eliteCount : {0, 1},
   maxGenerations : 0 .. MaxGenerations, fitnessThreshold : {MinusInfinity, 1}]

InitSeeded ==
  /\ impl = 1
  /\ dag = <<>>
  /\ depthsCurrent = FALSE
  /\ genome = NoGenome
  /\ net = NoNetwork
  /\ \E seed \in NeatSeeds, evolutionConfig \in SeededConfigs :
       last = [op |-> "new", seed |-> seed, evolutionConfig |-> evolutionConfig]
  /\ ret = "void"

\* neat1 = new NEAT({ seed }); neat2 = new NEAT({ seed }); both run.
SRunBoth ==
  /\ last.op = "new"
  /\ \E pairs \in InputOutputPairs :
       \E first \in NEAT_run(NEAT_new(last.seed), pairs, last.evolutionConfig),
          second \in NEAT_run(NEAT_new(last.seed), pairs, last.evolutionConfig) :
         /\ ret' = [first |-> first, second |-> second]
         /\ last' = [last EXCEPT !.op = "run"]
         /\ UNCHANGED <<impl, dag, depthsCurrent, genome, net>>

NextSeeded == SRunBoth

SpecSeeded == InitSeeded /\ [][NextSeeded]_vars

(***************************************************************************)
(* Specification of a Network set up by hand and executed: initialize,     *)
(* setNode for every node and setConnection for every connection, with any *)
(* fan-out counts and targets, then execute calls with input vectors of    *)
(* every length.  The network has one input, one hidden and one output     *)
(* node.                                                                   *)
(***************************************************************************)
ExecInfo == [inputs |-> 1, outputs |-> 1, hidden |-> 1]
NodeSettings == {[activation |-> "none", bias |-> 0], [activation |-> "relu", bias |-> -1]}
FanOuts == {0, 1, 2}
ExecWeights == {2}
ExecInputs == {<<>>, <<1>>, <<-1>>, <<1, 1>>}

RECURSIVE SetNodes(_, _, _, _)
SetNodes(n, settings, fanOut, i) ==
  IF i >= getNodeCount(n.info) THEN n
  ELSE SetNodes(Network_setNode(n, i, settings[i + 1].activation, settings[i + 1].bias,
                                fanOut[i + 1]),
                settings, fanOut, i + 1)

RECURSIVE SetConnections(_, _, _)
SetConnections(n, c, i) ==
  IF i >= Len(c) THEN n
  ELSE SetConnections(Network_setConnection(n, i, c[i + 1].to, c[i + 1].weight), c, i + 1)

InitExecute ==
  /\ impl = 2
  /\ dag = <<>>
  /\ depthsCurrent = FALSE
  /\ genome = Genome2_new(ExecInfo.inputs, ExecInfo.outputs)
  /\ \E count \in 0 .. MaxNetConnections :
       \E settings \in [1 .. getNodeCount(ExecInfo) -> NodeSettings],
          fanOut \in [1 .. getNodeCount(ExecInfo) -> FanOuts],
          c \in [1 .. count -> [to : 0 .. (getNodeCount(ExecInfo) - 1), weight : ExecWeights]] :
         net = SetConnections(SetNodes(Network_initialize(ExecInfo, count), settings, fanOut, 0),
                              c, 0)
  /\ last = NoCall
  /\ ret = "void"

\* network.execute(input); the network stays in use after a failed call.
XExecute ==
  \E input \in ExecInputs :
    LET r == Network_execute(net, input)
    IN /\ net' = r.net
       /\ last' = [op |-> "execute", input |-> input]
       /\ ret' = r.ret
       /\ UNCHANGED <<impl, dag, depthsCurrent, genome>>

NextExecute == XExecute

SpecExecute == InitExecute /\ [][NextExecute]_vars

(***************************************************************************)
(* Graph notions the properties are stated in.                             *)
(***************************************************************************)
NodeIds(d) == 0 .. (Len(d) - 1)

\* A directed path of at least one and at most n edges from a to b.
RECURSIVE Path(_, _, _, _)
Path(d, a, b, n) ==
  /\ n > 0
  /\ \/ includes(d[a + 1].out, b)
     \/ \E k \in 1 .. Len(d[a + 1].out) : Path(d, d[a + 1].out[k], b, n - 1)

\* A cycle has at most Len(d) edges.
Acyclic(d) == \A x \in NodeIds(d) : ~Path(d, x, x, Len(d))

isAncestor(d, a, b) == IF impl = 1 THEN DAG_isAncestor(d, a, b) ELSE DAG2_isAncestor(d, a, b)

\* The number of edges of the longest path that ends at n (acyclic d only).
RECURSIVE LongestPathTo(_, _)
LongestPathTo(d, n) ==
  LET parents == {p \in NodeIds(d) : includes(d[p + 1].out, n)}
      lengths == {LongestPathTo(d, p) + 1 : p \in parents}
  IN IF parents = {} THEN 0 ELSE CHOOSE m \in lengths : \A l \in lengths : l <= m

PositionIn(order, x) == CHOOSE k \in 1 .. Len(order) : order[k] = x

IsPermutationOfNodes(order, d) ==
  /\ Len(order) = Len(d)
  /\ \A x \in NodeIds(d) : \E k \in 1 .. Len(order) : order[k] = x

(***************************************************************************)
(* Properties of the DAG.                                                  *)
(***************************************************************************)

\* C1: in both DAG implementations, whatever createNode, createConnection
\* and removeConnection calls were made, the edge relation is acyclic and
\* isAncestor(x, x) is false for every node x.
C1_Acyclicity ==
  /\ Acyclic(dag)
  /\ \A x \in NodeIds(dag) : ~isAncestor(dag, x, x)

\* C1 witness: a two-edge path exists and the last createConnection call was
\* refused.
C1_Witness ==
  /\ last.op = "createConnection"
  /\ ret = "false"
  /\ \E a \in NodeIds(dag), b \in NodeIds(dag), c \in NodeIds(dag) :
       includes(dag[a + 1].out, b) /\ includes(dag[b + 1].out, c)

\* The arguments for which C2 requires createConnection(from, to) to fail.
MustReject(d, from, to) ==
  \/ from \notin NodeIds(d)
  \/ to \notin NodeIds(d)
  \/ from = to
  \/ Path(d, to, from, Len(d))
  \/ includes(d[from + 1].out, to)

\* C2: createConnection(from, to) returns false, raises nothing and leaves
\* every out-edge list and incoming count unchanged when an index is no node
\* index, from = to, to reaches from, or the edge exists; in both
\* implementations.
C2_RejectReturnsFalse ==
  [][\A from \in NodeArgs, to \in NodeArgs :
       (/\ last'.op = "createConnection"
        /\ MustReject(dag, from, to)
        /\ CreateConnectionCall(from, to))
       => (ret' = "false" /\ dag' = dag)]_vars

\* C3: right after computeDepth(), depth(b) > depth(a) for every edge (a, b).
C3_DepthMonotone ==
  last.op = "computeDepth" =>
    \A p \in Edges(dag) : dag[p[2] + 1].depth > dag[p[1] + 1].depth

\* C3 witness: computeDepth has just run on a DAG holding a two-edge path.
C3_Witness ==
  /\ last.op = "computeDepth"
  /\ \E a \in NodeIds(dag), b \in NodeIds(dag), c \in NodeIds(dag) :
       includes(dag[a + 1].out, b) /\ includes(dag[b + 1].out, c)

\* C4: right after computeDepth(), also when an edge was removed after an
\* earlier computeDepth(), every node without incoming edge has depth 0 and
\* every other node's depth is the length of the longest path ending at it.
C4_LongestPathDepth ==
  last.op = "computeDepth" =>
    \A n \in NodeIds(dag) : dag[n + 1].depth = LongestPathTo(dag, n)

\* C5: getTopologicalOrder() called after computeDepth() returns a
\* permutation of the node indices that lists a before b for every edge
\* (a, b).
C5_TopologicalOrder ==
  (last.op = "getTopologicalOrder" /\ depthsCurrent) =>
    /\ IsPermutationOfNodes(ret, dag)
    /\ \A p \in Edges(dag) : PositionIn(ret, p[1]) < PositionIn(ret, p[2])

\* C5 witness: an order was returned for a DAG with current depths in which
\* an edge leads from a higher index to a lower one.
C5_Witness ==
  /\ last.op = "getTopologicalOrder"
  /\ depthsCurrent
  /\ \E p \in Edges(dag) : p[1] > p[2]

(***************************************************************************)
(* Properties of the Genome.                                               *)
(***************************************************************************)
NodeCountMatchesInfo(g) ==
  Len(g.nodes) = g.info.inputs + g.info.outputs + g.info.hidden

\* Every node after the input/output block was created as a hidden node.
OnlyHiddenAdded(g) ==
  \A i \in 1 .. Len(g.nodes) :
    i > g.info.inputs + g.info.outputs => g.nodes[i].type = "hidden"

\* C6 as claimed: after construction and any createNode (of any node type),
\* createConnection, splitConnection and removeConnection calls,
\* nodes.length = info.inputs + info.outputs + info.hidden.
C6_NodeCountAnyType == NodeCountMatchesInfo(genome)

\* C6 amended: nodes.length = info.inputs + info.outputs + info.hidden as long
\* as every node created after construction was created with type Hidden.
C6_NodeCountHiddenOnly == OnlyHiddenAdded(genome) => NodeCountMatchesInfo(genome)

\* C6 witness: hidden nodes were added by createNode and by splitConnection.
C6_Witness ==
  /\ OnlyHiddenAdded(genome)
  /\ genome.info.hidden >= 1
  /\ last.op \in {"createNode", "splitConnection"}
  /\ ret \in {"index", "true"}

\* C7: the embedded DAG has as many nodes as the genome, and every
\* connection record, enabled or not, is an edge of the DAG.
C7_GenomeDagInSync ==
  /\ Len(genome.dag) = Len(genome.nodes)
  /\ \A k \in 1 .. Len(genome.connections) :
       LET c == genome.connections[k]
       IN /\ c.from \in NodeIds(genome.dag)
          /\ c.to \in NodeIds(genome.dag)
          /\ includes(genome.dag[c.from + 1].out, c.to)

\* C7 witness: a cloned genome that holds a hidden node and connections.
C7_Witness ==
  /\ last.op = "clone"
  /\ genome.info.hidden >= 1
  /\ Len(genome.connections) >= 2

\* C8: every index below inputs is classified input only, every index of
\* the next outputs indices output only, every later index hidden only; the
\* two blocks are the nodes the constructor made.
C8_IndexRoles ==
  \A i \in NodeIds(genome.nodes) :
    LET in == Genome_isInputNode(genome, i)
        out == Genome_isOutputNode(genome, i)
        hid == Genome_isHiddenNode(genome, i)
    IN IF i < genome.info.inputs
       THEN in /\ ~out /\ ~hid /\ genome.nodes[i + 1].type = "input"
       ELSE IF i < genome.info.inputs + genome.info.outputs
            THEN ~in /\ out /\ ~hid /\ genome.nodes[i + 1].type = "output"
            ELSE ~in /\ ~out /\ hid

\* C8 witness: nodes were added by createNode and splitConnection.
C8_Witness ==
  /\ Len(genome.nodes) > genome.info.inputs + genome.info.outputs
  /\ last.op = "splitConnection"
  /\ ret = "true"

EnabledCount(g) == Cardinality({k \in 1 .. Len(g.connections) : g.connections[k].enabled})

DagAccepts(d, from, to) ==
  /\ from \in NodeIds(d)
  /\ to \in NodeIds(d)
  /\ from # to
  /\ <<from, to>> \notin Edges(d)
  /\ ~Path(d, to, from, Len(d))

RECURSIVE FanOutBefore(_, _)
FanOutBefore(n, p) ==
  IF p = 0 THEN 0 ELSE n.nodes[p].connectionCount + FanOutBefore(n, p - 1)

\* The position of the node that fires the k-th connection (k from 1) of the
\* flat list, the connections being taken off it node by node.
SourcePosition(n, k) ==
  CHOOSE p \in 0 .. (Len(n.nodes) - 1) :
    FanOutBefore(n, p) < k /\ k <= FanOutBefore(n, p + 1)

FanOutsMatch(n) == FanOutBefore(n, Len(n.nodes)) = Len(n.connections)

AllForward(n) ==
  /\ FanOutsMatch(n)
  /\ \A k \in 1 .. Len(n.connections) : n.connections[k].to > SourcePosition(n, k)

\* C12: for every genome built by the constructor and createNode,
\* createConnection, splitConnection and removeConnection calls, generate
\* answers a network, and in it every connection's target position is greater
\* than the position of the node that fires it.
C12_GenerateForward ==
  last.op = "generate" => (ret = "network" /\ AllForward(net))

\* C13: generate never returns a network with a connection whose target
\* position is less than or equal to its source's position: whenever the
\* order puts the target of a compiled connection at or before its source,
\* generate ends with an error and no network.
C13_BackwardAborts ==
  last.op = "generate" =>
    LET compiled == {k \in 1 .. Len(genome.connections) :
                       impl = 2 \/ genome.connections[k].enabled}
        backward == \E k \in compiled :
                      IndexToOrder(last.order, genome.connections[k].to)
                        <= IndexToOrder(last.order, genome.connections[k].from)
    IN IF backward THEN ret = "Error" /\ net = NoNetwork
       ELSE ret = "network" /\ AllForward(net)


CompiledFrom(o) == SelectSeq(genome.connections, LAMBDA c : c.from = o /\ IsCompiled(c))

\* C14: in the network compiled from a genome, the node at position p carries
\* as fan-out count the number of enabled genome connections leaving
\* order[p]; the flat connection list holds, node after node in compiled
\* order, exactly those connections (target position and weight); the fan-out
\* counts sum to the number of connections emitted, which is the number of
\* enabled connections: a disabled one is never emitted.
C14_FanOutAndGrouping ==
  (last.op = "generate" /\ ret = "network") =>
    /\ Len(net.nodes) = Len(last.order)
    /\ \A p \in 1 .. Len(net.nodes) :
         net.nodes[p].connectionCount = Len(CompiledFrom(last.order[p]))
    /\ FanOutsMatch(net)
    /\ Len(net.connections) = Len(SelectSeq(genome.connections, IsCompiled))
    /\ \A k \in 1 .. Len(net.connections) :
         LET p == SourcePosition(net, k)
             c == CompiledFrom(last.order[p + 1])[k - FanOutBefore(net, p)]
         IN /\ net.connections[k].to = IndexToOrder(last.order, c.to)
            /\ net.connections[k].weight = c.weight

\* A network of two connections compiled by the first generator from a
\* genome that also holds a disabled connection.
C14_Witness ==
  /\ last.op = "generate" /\ ret = "network" /\ impl = 1
  /\ \E k \in 1 .. Len(genome.connections) : ~genome.connections[k].enabled
  /\ Len(net.connections) = 2
  /\ Len(net.connections) < Len(genome.connections)


\* What the connections k .. Len(connections) of network n bring to the node
\* at position j, each the value of its firing node times its weight.
RECURSIVE Incoming(_, _, _)
Incoming(n, j, k) ==
  IF k > Len(n.connections) THEN 0
  ELSE (IF n.connections[k].to = j
        THEN getValue(n.nodes[SourcePosition(n, k) + 1]) * n.connections[k].weight
        ELSE 0) + Incoming(n, j, k + 1)

\* C15: after a successful execute on a network whose connections all point
\* forward and whose fan-out counts sum to the number of connections, every
\* node's accumulator is its input value (0 past the input nodes) plus, over
\* the connections that target it, activation(sum + bias) of the firing node
\* times the weight; and every connection has been given that product once.
C15_ExecuteAccumulates ==
  (last.op = "execute" /\ ret = "true" /\ AllForward(net)) =>
    /\ \A j \in 1 .. Len(net.nodes) :
         net.nodes[j].sum =
           (IF j <= net.info.inputs THEN last.input[j] ELSE 0) + Incoming(net, j - 1, 1)
    /\ \A k \in 1 .. Len(net.connections) :
         net.connections[k].value =
           getValue(net.nodes[SourcePosition(net, k) + 1]) * net.connections[k].weight

\* A chain input -> hidden -> output has been executed: the hidden node is a
\* relu with a bias, and its value has reached the output node.
C15_Witness ==
  /\ last.op = "execute" /\ ret = "true" /\ AllForward(net)
  /\ Len(net.connections) = 2
  /\ net.connections[1].to = 1 /\ net.connections[2].to = 2
  /\ net.nodes[2].activation = "relu" /\ net.nodes[2].bias # 0
  /\ net.nodes[2].sum # 0 /\ net.nodes[3].sum # 0
  /\ net.nodes[3].sum # net.nodes[2].sum * net.connections[2].weight

C16_ResultIsOutputNodes ==
  (last.op = "execute" /\ ret = "true") =>
    \A k \in 0 .. (net.info.outputs - 1) :
      net.output[k + 1] =
        getValue(net.nodes[IndexToOrder(last.order, genome.info.inputs + k) + 1])


\* What generate decides of a network: per node its activation, bias and
\* fan-out count, per connection its target and weight.
Layout(n) ==
  [nodes |-> [i \in 1 .. Len(n.nodes) |->
                [activation |-> n.nodes[i].activation,
                 bias |-> n.nodes[i].bias,
                 connectionCount |-> n.nodes[i].connectionCount]],
   connections |-> [k \in 1 .. Len(n.connections) |->
                      [to |-> n.connections[k].to, weight |-> n.connections[k].weight]]]

\* C18: generate called again on a genome that was not modified since the
\* last generate (the network may have been executed in between) ends as the
\* first call did, with the same node order, fan-out counts, targets and
\* weights, although the first call stored its depths in the genome; hence
\* executing either network on the same input gives the same result vector.
C18_GenerateTwiceSame ==
  [][(last.op \in {"generate", "execute"} /\ last'.op = "generate") =>
       (/\ last'.order = last.order
        /\ (net = NoNetwork) = (net' = NoNetwork)
        /\ (last.op = "generate") => (ret' = ret)
        /\ Layout(net') = Layout(net)
        /\ (impl = 2) =>
             \A input \in InputVectors(net) :
               /\ Network_execute(net', input).ret = Network_execute(net, input).ret
               /\ Network_execute(net, input).ret = "true" =>
                    Network_execute(net', input).net.output
                      = Network_execute(net, input).net.output)]_vars

\* A genome whose order differs from its creation order has been compiled a
\* second time.
C18_Witness ==
  /\ last.op = "generate" /\ last.again /\ ret = "network"
  /\ \E p \in 1 .. Len(last.order) : last.order[p] # p - 1
  /\ \E i \in 1 .. Len(genome.nodes) : genome.nodes[i].depth = 2
  /\ Len(net.connections) = 2


\* C20: the clone of a genome built by createNode, createConnection and
\* splitConnection has the genome's info (inputs, outputs, hidden), as many
\* nodes and as many connections as the genome.
C20_CloneExactCopy ==
  LET clone == Genome_clone(genome)
  IN /\ clone.info = genome.info
     /\ Len(clone.nodes) = Len(genome.nodes)
     /\ Len(clone.connections) = Len(genome.connections)


\* C19: Mutator.mutate(genome, config) returns an object other than its
\* argument and leaves the argument as it was (nodes, biases, connections,
\* weights, enabled flags, DAG, counts), whatever the genome, the
\* configuration and the random draws.
C19_MutateLeavesArgument ==
  [][(last'.op = "mutate") => (genome' = genome /\ ~ret'.same)]_vars

\* mutate has returned a genome with a node, a bias or a weight its argument
\* does not have, for an argument that holds a disabled connection.
C19_Witness ==
  /\ last.op = "mutate"
  /\ \E k \in 1 .. Len(genome.connections) : ~genome.connections[k].enabled
  /\ ret.genome.info.hidden > genome.info.hidden
  /\ ret.genome.nodes[1].bias # genome.nodes[1].bias


\* C21: mutate does not split a connection when the genome's hidden count is
\* already config.maxHiddenNodes or more, and one call adds at most one
\* hidden node: the returned genome's hidden count is at most the greater of
\* the argument's hidden count and config.maxHiddenNodes.
C21_HiddenLimit ==
  (last.op = "mutate") =>
    /\ ret.genome.info.hidden <= genome.info.hidden + 1
    /\ ret.genome.info.hidden <= Max(genome.info.hidden, last.config.maxHiddenNodes)
    /\ (genome.info.hidden >= last.config.maxHiddenNodes) =>
         /\ ret.genome.info.hidden = genome.info.hidden
         /\ Len(ret.genome.nodes) <= Len(genome.nodes)
         /\ \A k \in 1 .. Len(ret.genome.connections) : ret.genome.connections[k].enabled

\* mutate was called at the limit on a genome that has a connection to
\* split, and it changed a bias.
C21_Witness ==
  /\ last.op = "mutate"
  /\ genome.info.hidden >= last.config.maxHiddenNodes
  /\ \E k \in 1 .. Len(genome.connections) : genome.connections[k].enabled
  /\ \E i \in 1 .. Len(ret.genome.nodes) : ret.genome.nodes[i].bias # 0


\* C22: in the add-connection step of mutate, whatever the two index draws,
\* the proposed source is the index of an input or hidden node and the
\* proposed target the index of a hidden or output node of the genome; the
\* genome answers true or false, and a rejected proposal (self-loop,
\* duplicate, cycle) leaves the genome as it was.
C22_AddConnectionProposals ==
  (last.op # "mutate") =>
    \A config \in MutationConfigs :
      \A g \in BeforeAddConnection(Genome_clone(genome), config) :
        \A p \in AddConnectionProposals(g) :
          LET r == Genome_createConnection(g, p[1], p[2], p[3])
          IN /\ p[1] \in 0 .. (Len(g.nodes) - 1)
             /\ g.nodes[p[1] + 1].type \in {"input", "hidden"}
             /\ p[1] < g.info.inputs \/ p[1] >= g.info.inputs + g.info.outputs
             /\ p[2] \in 0 .. (Len(g.nodes) - 1)
             /\ g.nodes[p[2] + 1].type \in {"hidden", "output"}
             /\ p[2] >= g.info.inputs
             /\ r.ret \in {"true", "false"}
             /\ (r.ret = "true") = DagAccepts(g.dag, p[1], p[2])
             /\ (r.ret = "false") => (r.genome = g)

\* mutate has added a connection that leaves a hidden node, and the same
\* genome offers a proposal that is rejected.
C22_Witness ==
  /\ last.op = "mutate"
  /\ \E k \in 1 .. Len(ret.genome.connections) :
       /\ ret.genome.connections[k].from >= genome.info.inputs + genome.info.outputs
       /\ ret.genome.connections[k].to < genome.info.inputs + genome.info.outputs
       /\ \A j \in 1 .. Len(genome.connections) :
            genome.connections[j].from # ret.genome.connections[k].from
  /\ \E p \in AddConnectionProposals(ret.genome) :
       Genome_createConnection(ret.genome, p[1], p[2], p[3]).ret = "false"


C24_PopulationSize ==
  (last.op = "evolve") => (Len(ret.population) = last.evolutionConfig.populationSize)


\* C26: for every integer seed, negative ones included, after each call of
\* random or randomInt(n), n >= 1, the state of the SimpleRandomGenerator is
\* an integer in [0, 2^32), random returns a value in [0, 1) and randomInt(n)
\* an integer in [0, n).
C26_RandomRanges ==
  /\ (last.op \in {"random", "randomInt", "probability"}) => ~ret.generator._seed.neg
  /\ (last.op = "random") => ~ret.value.neg
  /\ (last.op = "randomInt") => (ret.value >= 0 /\ ret.value < last.max)


\* C25: two NEAT instances made with the same seed and run with the same
\* deterministic fitness function and configuration produce the same initial
\* population and the same result (population, bestFitness, fitnessHistory).
C25_SameSeedSameResult ==
  (last.op = "run") => (ret.first = ret.second)


\* C27: in every genome of a line of descent each input node keeps the
\* identity activation and bias 0, and after execute the value of the
\* compiled input node i is input[i].
C27_InputPassThrough ==
  /\ \A i \in 1 .. genome.info.inputs :
       genome.nodes[i].activation = "none" /\ genome.nodes[i].bias = 0
  /\ (last.op = "execute" /\ ret = "true") =>
       \A i \in 1 .. net.info.inputs : getValue(net.nodes[i]) = last.input[i]


\* The greatest depth the DAG of the genome holds for a node.
MaxDagDepth(g) ==
  CHOOSE m \in {g.dag[i].depth : i \in 1 .. Len(g.dag)} :
    \A i \in 1 .. Len(g.dag) : g.dag[i].depth <= m

\* C28: after computeDepth of the first Genome, every output node's depth is
\* the greater of 1 and the greatest depth of the DAG's nodes, no node is
\* deeper than the output nodes, and every other node has the depth of its
\* DAG node.
C28_OutputDepth ==
  (impl = 1 /\ last.op = "generate") =>
    \A i \in 1 .. Len(genome.nodes) :
      /\ Genome_isOutputNode(genome, i - 1) =>
           (genome.nodes[i].depth = Max(1, MaxDagDepth(genome)))
      /\ (~Genome_isOutputNode(genome, i - 1)) =>
           (genome.nodes[i].depth = genome.dag[i].depth)
      /\ \A o \in 1 .. Len(genome.nodes) :
           Genome_isOutputNode(genome, o - 1) => (genome.nodes[i].depth <= genome.nodes[o].depth)

\* computeDepth has raised an output node above the depth the DAG gave it, in
\* a genome with a deeper node that is no output.
C28_Witness ==
  /\ impl = 1
  /\ last.op = "generate"
  /\ \E o \in 1 .. Len(genome.nodes) :
       /\ Genome_isOutputNode(genome, o - 1)
       /\ genome.dag[o].depth < genome.nodes[o].depth
       /\ \E i \in 1 .. Len(genome.nodes) :
            ~Genome_isOutputNode(genome, i - 1) /\ genome.dag[i].depth > genome.dag[o].depth


\* C29: getTopologicalOrder of the first Genome returns a permutation of all
\* node indices in which the depths never decrease and nodes of one depth
\* stand in ascending index order; when no input node has an incoming edge,
\* input node i is at position i.
C29_OrderByDepthThenIndex ==
  (impl = 1 /\ last.op = "generate") =>
    /\ IsPermutationOfNodes(last.order, genome.dag)
    /\ \A p, q \in 1 .. Len(last.order) :
         (p < q) =>
           \/ genome.nodes[last.order[p] + 1].depth < genome.nodes[last.order[q] + 1].depth
           \/ /\ genome.nodes[last.order[p] + 1].depth = genome.nodes[last.order[q] + 1].depth
              /\ last.order[p] < last.order[q]
    /\ (\A i \in 1 .. genome.info.inputs : genome.dag[i].incoming = 0) =>
         (\A i \in 1 .. genome.info.inputs : last.order[i] = i - 1)

\* The order returned moves a node behind a node of greater index, and
\* leaves two nodes of one depth in index order.
C29_Witness ==
  /\ impl = 1
  /\ last.op = "generate"
  /\ \A i \in 1 .. genome.info.inputs : genome.dag[i].incoming = 0
  /\ \E p, q \in 1 .. Len(last.order) :
       p < q /\ last.order[p] > last.order[q]
  /\ \E p, q \in 1 .. Len(last.order) :
       /\ p < q
       /\ genome.nodes[last.order[p] + 1].depth = genome.nodes[last.order[q] + 1].depth

\* Number of positions of s that hold x.
RECURSIVE Occurrences(_, _)
Occurrences(s, x) ==
  IF Len(s) = 0 THEN 0
  ELSE (IF s[Len(s)] = x THEN 1 ELSE 0) + Occurrences(SubSeq(s, 1, Len(s) - 1), x)

\* While computeDepth runs: no node is pushed or popped twice, the nodes
\* pushed so far are exactly the nodes whose working incoming count is 0
\* (among the nodes the first loop has passed, while it runs), and a popped
\* node was pushed before.
WorklistDiscipline ==
  (last.op = "computeDepth") =>
    \A n \in 0 .. (Len(dag) - 1) :
      /\ Occurrences(last.pushed, n) <= 1
      /\ Occurrences(last.popped, n) + Occurrences(last.startNodes, n)
           = Occurrences(last.pushed, n)
      /\ (last.pc # "seed" \/ n < last.i) =>
           (includes(last.pushed, n) <=> last.incoming[n + 1] = 0)
      /\ (last.pc = "seed" /\ n >= last.i) => ~includes(last.pushed, n)

\* When computeDepth has returned, every node was pushed once and popped once.
EveryNodeOnce ==
  /\ last.op = "computeDepth"
  /\ last.pc = "done"
  /\ Len(last.startNodes) = 0
  /\ \A n \in 0 .. (Len(dag) - 1) :
       Occurrences(last.pushed, n) = 1 /\ Occurrences(last.popped, n) = 1
  /\ Len(last.popped) = Len(dag)

\* C30: on every DAG reachable through createNode, createConnection and
\* removeConnection, in both implementations, a call of computeDepth
\* returns, and by then it has pushed every node onto startNodes exactly
\* once, at the moment the node's working incoming count is 0 (initially,
\* or after the decrement that brings it to 0), and has popped every node
\* exactly once.
C30_TerminatesEachNodeOnce ==
  /\ []WorklistDiscipline
  /\ (Running ~> EveryNodeOnce)

\* A call has returned on a DAG of three nodes in which one node was pushed
\* by the first loop and another by the second decrement of its count.
C30_Witness ==
  /\ EveryNodeOnce
  /\ Len(dag) >= 3
  /\ \E n \in 1 .. Len(dag) : last.before[n].incoming = 2
  /\ \E n \in 1 .. Len(dag) : last.before[n].incoming = 0 /\ Len(dag[n].out) > 0

\* isAncestor with the depth of its recursion counted: "running" when the
\* call at depth fuel would still call itself.  Array.prototype.some stops
\* at the first child that answers true; here every child is asked, so
\* "running" is reported whenever any branch would go deeper.
RECURSIVE IsAncestorWithin(_, _, _, _)
IsAncestorWithin(d, a, b, fuel) ==
  IF impl = 1 /\ ~DAG_isValid(d, a) THEN "false"
  ELSE IF includes(d[a + 1].out, b) THEN "true"
  ELSE IF Len(d[a + 1].out) = 0 THEN "false"
  ELSE IF fuel = 0 THEN "running"
  ELSE LET answers == {IsAncestorWithin(d, d[a + 1].out[k], b, fuel - 1) :
                         k \in 1 .. Len(d[a + 1].out)}
       IN IF "true" \in answers THEN "true"
          ELSE IF "running" \in answers THEN "running"
          ELSE "false"

\* There are nodes a = p[1], p[2], ..., p[n + 1] = b, n >= 1, each with an
\* edge to the next.
WalkExists(d, a, b) ==
  /\ a \in NodeIds(d)
  /\ b \in NodeIds(d)
  /\ \E n \in 1 .. Len(d) :
       \E p \in [1 .. (n + 1) -> NodeIds(d)] :
         /\ p[1] = a
         /\ p[n + 1] = b
         /\ \A i \in 1 .. n : \E k \in 1 .. Len(d[p[i] + 1].out) : d[p[i] + 1].out[k] = p[i + 1]

EdgeExists(d, a, b) ==
  a \in NodeIds(d) /\ \E k \in 1 .. Len(d[a + 1].out) : d[a + 1].out[k] = b

\* The first arguments the queries are made with: any index in the first
\* implementation, an existing index in the second (whose nodes[a] is
\* undefined for the others).
QueryArgs == IF impl = 1 THEN NodeArgs ELSE NodeIds(dag)

\* C31: in every reachable DAG state isAncestor(a, b) returns, with a
\* recursion no deeper than the number of nodes, and it returns true exactly
\* when a walk of at least one edge leads from a to b (so isAncestor(a, a)
\* is false); isParent(a, b) returns true exactly when the edge a -> b
\* exists.
C31_AncestorIsPath ==
  \A a \in QueryArgs, b \in NodeArgs :
    /\ IsAncestorWithin(dag, a, b, Len(dag)) # "running"
    /\ isAncestor(dag, a, b) <=> WalkExists(dag, a, b)
    /\ (IsAncestorWithin(dag, a, b, Len(dag)) = "true") <=> isAncestor(dag, a, b)
    /\ (IF impl = 1 THEN DAG_isParent(dag, a, b) ELSE DAG2_isParent(dag, a, b))
         <=> EdgeExists(dag, a, b)
    /\ ~isAncestor(dag, a, a)

\* A DAG in which isAncestor answers true for a pair that is no edge, true
\* for an edge and false for a pair of existing nodes.
C31_Witness ==
  /\ \E a \in NodeIds(dag), b \in NodeIds(dag) :
       isAncestor(dag, a, b) /\ ~EdgeExists(dag, a, b)
  /\ \E a \in NodeIds(dag), b \in NodeIds(dag) :
       isAncestor(dag, a, b) /\ EdgeExists(dag, a, b)
  /\ \E a \in NodeIds(dag), b \in NodeIds(dag) : a # b /\ ~isAncestor(dag, a, b)

\* C32: removeConnection(from, to) of an existing edge removes that edge and
\* lowers to's incoming count by 1, every other edge and count unchanged;
\* when there is no such edge, from or to not being a node index included,
\* the call changes nothing and raises no error; in both implementations.
C32_RemoveConnection ==
  [][\A from \in NodeArgs, to \in NodeArgs :
       (/\ last'.op = "removeConnection"
        /\ RemoveConnectionCall(from, to))
       => /\ ret' # "TypeError"
          /\ Len(dag') = Len(dag)
          /\ \A n \in NodeIds(dag) : dag'[n + 1].depth = dag[n + 1].depth
          /\ IF EdgeExists(dag, from, to)
             THEN /\ Edges(dag') = Edges(dag) \ {<<from, to>>}
                  /\ \A n \in NodeIds(dag) :
                       dag'[n + 1].incoming = dag[n + 1].incoming - (IF n = to THEN 1 ELSE 0)
             ELSE dag' = dag]_vars

\* The same for the first implementation alone.
RemoveConnectionFirst ==
  [][impl = 1 => \A from \in NodeArgs, to \in NodeArgs :
       (/\ last'.op = "removeConnection"
        /\ RemoveConnectionCall(from, to))
       => /\ ret' # "TypeError"
          /\ IF EdgeExists(dag, from, to)
             THEN /\ Edges(dag') = Edges(dag) \ {<<from, to>>}
                  /\ \A n \in NodeIds(dag) :
                       dag'[n + 1].incoming = dag[n + 1].incoming - (IF n = to THEN 1 ELSE 0)
             ELSE dag' = dag]_vars

\* The second implementation called with an existing first index.
RemoveConnectionSecondValid ==
  [][impl = 2 => \A from \in NodeIds(dag), to \in NodeArgs :
       (/\ last'.op = "removeConnection"
        /\ RemoveConnectionCall(from, to))
       => /\ ret' # "TypeError"
          /\ IF EdgeExists(dag, from, to)
             THEN /\ Edges(dag') = Edges(dag) \ {<<from, to>>}
                  /\ \A n \in NodeIds(dag) :
                       dag'[n + 1].incoming = dag[n + 1].incoming - (IF n = to THEN 1 ELSE 0)
             ELSE dag' = dag]_vars

\* C33: in every reachable genome, removeConnection(index) with an index in
\* range drops exactly the record at that index, the other records keeping
\* their order, removes the record's DAG edge and lowers the target's
\* incoming count by 1, nodes and info untouched, and createConnection with
\* the record's endpoints succeeds on the result; with an index out of range
\* the genome is unchanged.
C33_RemoveConnectionByIndex ==
  \A connectionIndex \in ConnectionArgs(genome) :
    LET r == Genome_removeConnection(genome, connectionIndex)
    IN IF connectionIndex >= 0 /\ connectionIndex < Len(genome.connections)
       THEN LET c == genome.connections[connectionIndex + 1]
            IN /\ Len(r.connections) = Len(genome.connections) - 1
               /\ \A k \in 1 .. Len(r.connections) :
                    r.connections[k] =
                      genome.connections[IF k <= connectionIndex THEN k ELSE k + 1]
               /\ Edges(r.dag) = Edges(genome.dag) \ {<<c.from, c.to>>}
               /\ <<c.from, c.to>> \in Edges(genome.dag)
               /\ \A n \in NodeIds(genome.dag) :
                    r.dag[n + 1].incoming =
                      genome.dag[n + 1].incoming - (IF n = c.to THEN 1 ELSE 0)
               /\ r.nodes = genome.nodes
               /\ r.info = genome.info
               /\ \A weight \in Weights :
                    Genome_createConnection(r, c.from, c.to, weight).ret = "true"
       ELSE r = genome

\* A removeConnection call has left a genome of at least three nodes that
\* still holds a record, which the next call can remove, and an index out
\* of range on either side.
C33_Witness ==
  /\ last.op = "removeConnection"
  /\ Len(genome.nodes) >= 3
  /\ Len(genome.connections) >= 1
  /\ \E a \in NodeIds(genome.dag), b \in NodeIds(genome.dag) :
       a # b /\ <<a, b>> \notin Edges(genome.dag) /\ <<b, a>> \notin Edges(genome.dag)

\* The network as initialize and the set calls left it: every accumulator,
\* connection value and result element 0.
Cleared(n) ==
  [n EXCEPT !.nodes = [i \in 1 .. Len(n.nodes) |-> [n.nodes[i] EXCEPT !.sum = 0]],
            !.connections = [k \in 1 .. Len(n.connections) |->
                               [n.connections[k] EXCEPT !.value = 0]],
            !.output = [k \in 1 .. Len(n.output) |-> 0]]

\* C34: whatever execute calls, successful or rejected, were made before,
\* execute(input) answers as it does on the network that was never
\* executed, and when it succeeds it leaves the same result vector and the
\* same accumulators: the result of execute depends on the input only.
C34_ExecuteRepeatable ==
  \A input \in ExecInputs :
    LET now == Network_execute(net, input)
        first == Network_execute(Cleared(net), input)
    IN /\ now.ret = first.ret
       /\ (now.ret = "true") =>
            /\ now.net.output = first.net.output
            /\ \A j \in 1 .. Len(net.nodes) : now.net.nodes[j].sum = first.net.nodes[j].sum

\* A successful execute has left non-zero accumulators and a non-zero
\* result on a network whose result differs between two inputs.
C34_Witness ==
  /\ last.op = "execute" /\ ret = "true"
  /\ \E j \in 1 .. Len(net.nodes) : j > net.info.inputs /\ net.nodes[j].sum # 0
  /\ net.output[1] # 0
  /\ Network_execute(net, <<1>>).ret = "true"
  /\ Network_execute(net, <<1>>).net.output # Network_execute(net, <<-1>>).net.output

\* The number of positions of s that hold a value greater than x.
Greater(s, x) == Cardinality({j \in 1 .. Len(s) : s[j] > x})

\* The greatest value of a non-empty s.
Greatest(s) == CHOOSE x \in {s[j] : j \in 1 .. Len(s)} : \A j \in 1 .. Len(s) : s[j] <= x

\* After a pass that built a population, its first min(eliteCount,
\* previous length) genomes are the genomes of the previous population with
\* the highest fitness, best first: the i-th has fewer than i genomes above
\* it, and no fitness is taken more often than the previous population
\* holds it.
ElitePlaced ==
  LET kept == IF last.evolutionConfig.eliteCount < Len(last.previous)
              THEN last.evolutionConfig.eliteCount ELSE Len(last.previous)
  IN /\ Len(last.population) >= kept
     /\ \A i \in 1 .. kept : Greater(last.previous, last.population[i]) < i
     /\ \A x \in FitnessValues :
          Cardinality({i \in 1 .. kept : last.population[i] = x})
            <= Cardinality({j \in 1 .. Len(last.previous) : last.previous[j] = x})

BestNotLower == Greatest(last.population) >= Greatest(last.previous)

\* C35 as stated: after every pass that does not end the run the elite is
\* placed and the best fitness in the population is not lower than before.
C35_ElitismAnyEliteCount ==
  (last.op = "pass") => (ElitePlaced /\ BestNotLower)

\* C35: after every pass that does not end the run the elite is placed,
\* and when eliteCount is at least 1 the best fitness in the population is
\* not lower than in the population before.
C35_Elitism ==
  (last.op = "pass") =>
    /\ ElitePlaced
    /\ (last.evolutionConfig.eliteCount >= 1) => BestNotLower

\* A pass has kept, as the one elite genome, the second genome of a
\* population whose first genome is worse, next to a child that is worse.
C35_Witness ==
  /\ last.op = "pass"
  /\ last.evolutionConfig.eliteCount = 1
  /\ last.previous = <<0, 1>>
  /\ last.population = <<1, 0>>

\* C36: in every reachable state of either DAG implementation each node's
\* incoming count is the number of nodes that list it in their out list, no
\* out list holds a target twice, and every target listed is a node index.
C36_IncomingCounts ==
  \A n \in NodeIds(dag) :
    /\ dag[n + 1].incoming =
         Cardinality({m \in NodeIds(dag) : \E k \in 1 .. Len(dag[m + 1].out) : dag[m + 1].out[k] = n})
    /\ \A j, k \in 1 .. Len(dag[n + 1].out) :
         (j # k) => dag[n + 1].out[j] # dag[n + 1].out[k]
    /\ \A k \in 1 .. Len(dag[n + 1].out) : dag[n + 1].out[k] \in NodeIds(dag)

\* A removeConnection call has left a node with two incoming edges next to
\* a pair of nodes without edge, for which the call removes nothing.
C36_Witness ==
  /\ last.op = "removeConnection"
  /\ \E n \in NodeIds(dag) : dag[n + 1].incoming = 2
  /\ \E a \in NodeIds(dag), b \in NodeIds(dag) : a # b /\ ~EdgeExists(dag, a, b)

RecordPairs(g) == {<<g.connections[k].from, g.connections[k].to>> : k \in 1 .. Len(g.connections)}

\* C38: in every genome reachable through the constructor, createNode,
\* createConnection, splitConnection, removeConnection, clone and
\* Mutator.mutate no two connection records, enabled or not, have the same
\* (from, to), no record has from = to, and the records' pairs are exactly
\* the edges of the genome's DAG.
C38_UniqueRecords ==
  /\ \A j, k \in 1 .. Len(genome.connections) :
       (j # k) =>
         <<genome.connections[j].from, genome.connections[j].to>>
           # <<genome.connections[k].from, genome.connections[k].to>>
  /\ \A k \in 1 .. Len(genome.connections) :
       genome.connections[k].from # genome.connections[k].to
  /\ RecordPairs(genome) = Edges(genome.dag)
  /\ Len(genome.connections) = EdgeCount(genome.dag)

\* mutate has returned a genome with a hidden node and three records, one
\* of them disabled.
C38_Witness ==
  /\ last.op = "mutate"
  /\ genome.info.hidden >= 1
  /\ Len(genome.connections) >= 3
  /\ \E k \in 1 .. Len(genome.connections) : ~genome.connections[k].enabled

====
